---- MODULE Spec2Model ----
(***************************************************************************)
(* A model of herald's execution core (src/src/herald/executor.py):        *)
(* ClaudeExecutor keeps one SDK client per chat id in _clients and one     *)
(* asyncio.Lock per chat id in _locks.  Callers are asyncio tasks; a step  *)
(* of the model is the code a task runs between two awaits.  The heartbeat  *)
(* scheduler (src/src/herald/heartbeat/scheduler.py) is modelled beside it: *)
(* its flags, its loop tasks and the calls to start, stop and trigger; so   *)
(* are the heartbeat executor (heartbeat/executor.py), which maps what the  *)
(* session executor produced to a heartbeat result, and the response        *)
(* classifier (heartbeat/classifier.py), computed character by character.   *)
(***************************************************************************)
EXTENDS Integers, Sequences, FiniteSets, TLC

\* ------------------------------------------------------------- bounds
MaxCalls == 4        \* public operations started in one behaviour
MaxMsgs == 1         \* messages one drain receives, with concurrent callers
MaxDrainMsgs == 3    \* messages one drain receives, with a single caller
MaxStreamMsgs == 3   \* messages one drain receives, with a partial-text callback
MaxStarts == 2       \* calls of the scheduler's start() in one behaviour
MaxTicks == 2        \* iterations one heartbeat loop task runs

\* Responses are made of at most MaxPieces pieces (markers, whitespace, words).
MaxPieces == 3

\* The acknowledgment thresholds (config.ack_max_chars) are 1..MaxAck.
MaxAck == 3

\* The instants a clock is read at fall on days 0..MaxDay.
MaxDay == 1

\* Interval strings are made of at most MaxIntervalPieces pieces.
MaxIntervalPieces == 3

\* At most this many different update ids reach the webhook handler: in the
\* runs about what it does with a message, and in the runs about retries.
MaxHookUpdates == 6
MaxUpdates == 1001

\* The concurrent tasks calling into the executor.
Callers == {1, 2}
Chats == {1, 2}

\* ------------------------------------------------------------- values
\* Optional values (Python's `str | None`): None, or a one-element wrapper.
None == <<>>
Some(x) == <<x>>

\* Texts are sequences of characters.
Whitespace == {" ", "\n"}

RECURSIVE LStrip(_)
LStrip(s) == IF s # <<>> /\ Head(s) \in Whitespace THEN LStrip(Tail(s)) ELSE s

RECURSIVE RStrip(_)
RStrip(s) ==
    IF s # <<>> /\ s[Len(s)] \in Whitespace
    THEN RStrip(SubSeq(s, 1, Len(s) - 1))
    ELSE s

\* str.strip()
Strip(s) == RStrip(LStrip(s))

\* "\n".join(parts)
RECURSIVE Join(_)
Join(parts) ==
    IF parts = <<>> THEN <<>>
    ELSE IF Len(parts) = 1 THEN parts[1]
    ELSE parts[1] \o <<"\n">> \o Join(Tail(parts))

\* Plain concatenation of the fragments, with nothing in between.
RECURSIVE Concat(_)
Concat(parts) == IF parts = <<>> THEN <<>> ELSE parts[1] \o Concat(Tail(parts))

\* A text of n characters ch.
Rep(ch, n) == [i \in 1..n |-> ch]

\* ------------------------------------------------------------- messages
TextBlock(t) == [kind |-> "text", text |-> t]
ToolUseBlock == [kind |-> "tool", text |-> <<>>]
AssistantMessage(blocks) == [type |-> "assistant", content |-> blocks, result |-> None]
ResultMessage(r) == [type |-> "result", content |-> <<>>, result |-> r]
SystemMessage == [type |-> "system", content |-> <<>>, result |-> None]

\* What one wait_for(_next_message(...)) can produce.
Msg(m) == [ev |-> "msg", msg |-> m]
EndOfStream == [ev |-> "end", msg |-> SystemMessage]
IdleTimeout == [ev |-> "timeout", msg |-> SystemMessage]
StreamError == [ev |-> "error", msg |-> SystemMessage]

\* The streams of the concurrency specification: terminal results, and
\* every way a receive can end the drain.
BasicEvents ==
    { Msg(ResultMessage(Some(<<"r">>))), EndOfStream, IdleTimeout, StreamError }

\* The streams of the drain specification: texts with surrounding
\* whitespace, empty and absent result texts, several blocks per message.
RichEvents ==
    { Msg(AssistantMessage(<<TextBlock(<<"a">>)>>)),
      Msg(AssistantMessage(<<TextBlock(<<" ", "b">>), ToolUseBlock>>)),
      Msg(AssistantMessage(<<ToolUseBlock>>)),
      Msg(ResultMessage(Some(<<"r">>))),
      Msg(ResultMessage(Some(<<"s", " ">>))),
      Msg(ResultMessage(Some(<<>>))),
      Msg(ResultMessage(None)),
      Msg(SystemMessage),
      EndOfStream, IdleTimeout, StreamError }

\* The streams of the streaming specification: assistant texts just below,
\* at and above the streaming length, blocks that are short one by one and
\* long together, and tool calls.
StreamEvents ==
    { Msg(AssistantMessage(<<TextBlock(Rep("x", 199))>>)),
      Msg(AssistantMessage(<<TextBlock(Rep("y", 200))>>)),
      Msg(AssistantMessage(<<TextBlock(Rep("z", 201))>>)),
      Msg(AssistantMessage(<<TextBlock(Rep("x", 120)), TextBlock(Rep("y", 120))>>)),
      Msg(AssistantMessage(<<ToolUseBlock>>)),
      Msg(ResultMessage(Some(<<"r">>))),
      EndOfStream, IdleTimeout, StreamError }

\* ------------------------------------------------------------- state
VARIABLES
    clients,     \* _clients: the session table, in insertion order
    locks,       \* _locks: the chat ids that have a lock
    lockOwner,   \* per chat id, the caller holding its lock (0: free)
    lockQueue,   \* per chat id, the callers waiting on its lock, FIFO
    sess,        \* every SDK client ever constructed: its chat id and state
    calls,       \* public operations started so far
    call,        \* per caller, the frame of the operation it is running
                 \* (received, armed, forwarded, disc_failed: the messages
                 \* it got, the timeout of each wait, the texts handed to
                 \* the callback and whether a disconnect() of its teardown
                 \* raised, kept for reference)
    last,        \* how the latest operation ended (cleared when one starts)
    sched,       \* the HeartbeatScheduler: its configuration, _running, _task
    tasks,       \* every loop task start() ever created, in order of creation
    hcall,       \* the calls into the scheduler: start() calls so far, and
                 \* where a stop() and a trigger() under way are
    beat,        \* how the latest heartbeat execution ended (for reference)
    hbx,         \* the HeartbeatExecutor: the execute() call under way or over
    cls,         \* a call of classify_heartbeat_response: its input and output
    ucall,       \* a call of one of the heartbeat's utilities (active hours,
                 \* interval parsing, configuration): its input and output
    hook         \* the WebhookHandler: _processed_updates, and what its
                 \* latest handle_update did

\* What the session executor leaves alone: the heartbeat's part of the state.
hbvars == <<sched, tasks, hcall, beat, hbx, cls, ucall, hook>>

vars == <<clients, locks, lockOwner, lockQueue, sess, calls, call, last,
          sched, tasks, hcall, beat, hbx, cls, ucall, hook>>

IdleFrame ==
    [ pc |-> "idle", chat_id |-> 0, client |-> 0, closing |-> 0, todo |-> <<>>,
      text_parts |-> <<>>, last_result_text |-> None, result_count |-> 0,
      timed_out |-> FALSE, received |-> <<>>, armed |-> <<>>,
      on_assistant_text |-> FALSE, forwarded |-> <<>>, disc_failed |-> FALSE ]

NoRet ==
    [ kind |-> "none", op |-> "none", chat_id |-> 0, success |-> FALSE,
      output |-> <<>>, error |-> "none", path |-> "none", timed_out |-> FALSE,
      result_count |-> 0, received |-> <<>>, armed |-> <<>>,
      on_assistant_text |-> FALSE, forwarded |-> <<>>, disc_failed |-> FALSE,
      client |-> 0, closing |-> 0, in_table |-> FALSE ]

\* A HeartbeatResult, as far as the scheduler reads it.
NoResult == [success |-> FALSE, should_deliver |-> FALSE]

\* No scheduler constructed yet.
NoScheduler ==
    [ made |-> FALSE, enabled |-> FALSE, on_alert |-> FALSE, active_hours |-> FALSE,
      interval |-> 0, target |-> None, running |-> FALSE, task |-> 0 ]

IdleHcall ==
    [ starts |-> 0, stop |-> [pc |-> "idle", task |-> 0],
      trigger |-> [pc |-> "idle", result |-> NoResult, alerts |-> 0] ]

\* A HeartbeatResponse, and a HeartbeatResult in full.
NoResponse == [is_ok |-> FALSE, content |-> <<>>, should_deliver |-> FALSE]
NoHeartbeatResult ==
    [ success |-> FALSE, content |-> <<>>, should_deliver |-> FALSE, is_ok |-> FALSE,
      error |-> None ]

\* No ExecutionResult (nor exception) from the session executor yet.
NoExecution == [raised |-> FALSE, success |-> FALSE, output |-> <<>>, error |-> None]

\* No HeartbeatExecutor.execute() yet; no classification yet.
IdleHbx ==
    [ pc |-> "idle", by |-> "none", chat_id |-> None, target_chat_id |-> 0,
      ack_max_chars |-> 0, exec |-> NoExecution, result |-> NoHeartbeatResult ]

NoClassify == [pc |-> "none", text |-> <<>>, ack_max_chars |-> 0, out |-> NoResponse]

\* No utility call yet.
NoUcall == [pc |-> "none", fn |-> "none", args |-> <<>>, out |-> <<>>]

\* A WebhookHandler as constructed: nothing processed, nothing done.
NoDone == [update_id |-> 0, user_id |-> None, text |-> <<>>, fresh |-> FALSE, did |-> <<>>]
NoHook ==
    [ made |-> FALSE, allowed |-> {}, processed |-> <<>>, recorded |-> <<>>, handled |-> 0,
      done |-> NoDone ]

NoBeat == [by |-> -1, how |-> "none", raised |-> FALSE, result |-> NoResult, alerts |-> 0]

\* Everything but the utility call is as constructed.
Quiet ==
    /\ hbx = IdleHbx
    /\ cls = NoClassify
    /\ hook = NoHook
    /\ sched = NoScheduler
    /\ tasks = <<>>
    /\ hcall = IdleHcall
    /\ beat = NoBeat
    /\ clients = <<>>
    /\ locks = {}
    /\ lockOwner = [c \in Chats |-> 0]
    /\ lockQueue = [c \in Chats |-> <<>>]
    /\ sess = <<>>
    /\ calls = 0
    /\ call = [p \in Callers |-> IdleFrame]
    /\ last = NoRet

Init ==
    /\ ucall = NoUcall
    /\ hook = NoHook
    /\ hbx = IdleHbx
    /\ cls = NoClassify
    /\ sched = NoScheduler
    /\ tasks = <<>>
    /\ hcall = IdleHcall
    /\ beat = NoBeat
    /\ clients = <<>>
    /\ locks = {}
    /\ lockOwner = [c \in Chats |-> 0]
    /\ lockQueue = [c \in Chats |-> <<>>]
    /\ sess = <<>>
    /\ calls = 0
    /\ call = [p \in Callers |-> IdleFrame]
    /\ last = NoRet

\* ------------------------------------------------------------- session table
\* chat_id in self._clients
HasClient(c) == \E i \in 1..Len(clients) : clients[i].chat = c

\* self._clients[chat_id]
ClientOf(c) == clients[CHOOSE i \in 1..Len(clients) : clients[i].chat = c].sid

\* del self._clients[chat_id]
DelClient(tbl, c) == SelectSeq(tbl, LAMBDA e : e.chat # c)

\* self._clients[chat_id] = client
PutClient(tbl, c, s) ==
    IF \E i \in 1..Len(tbl) : tbl[i].chat = c
    THEN [i \in 1..Len(tbl) |-> IF tbl[i].chat = c THEN [chat |-> c, sid |-> s] ELSE tbl[i]]
    ELSE Append(tbl, [chat |-> c, sid |-> s])

\* client.disconnect() has been invoked on session s.
Disconnected(ss, s) == [ss EXCEPT ![s].st = "closed"]

\* ------------------------------------------------------------- the drain
\* Idle timeouts of the drain loop, in seconds.
MESSAGE_IDLE_TIMEOUT == 1800
POST_RESULT_IDLE_TIMEOUT == 30

\* One timeout for the whole call, results or not.
IdleTimeoutFor_AlwaysLong(n) == MESSAGE_IDLE_TIMEOUT

\* The timeout chosen at the top of each iteration of the drain loop.
IdleTimeoutFor(n) ==
    IF n > 0 THEN POST_RESULT_IDLE_TIMEOUT ELSE MESSAGE_IDLE_TIMEOUT

\* The texts of a message's TextBlocks, in order (msg_text_parts).
RECURSIVE TextsOf(_)
TextsOf(blocks) ==
    IF blocks = <<>> THEN <<>>
    ELSE IF Head(blocks).kind = "text"
         THEN <<Head(blocks).text>> \o TextsOf(Tail(blocks))
         ELSE TextsOf(Tail(blocks))

\* `if message.result:` -- a result text that is neither None nor empty.
Truthy(r) == r # None /\ r[1] # <<>>

\* A ResultMessage counts, whatever it carries.
CountResult(n) == n + 1

\* The result text overwritten by every ResultMessage, with or without text.
NextResultText_Unconditional(old, r) == r

\* `if message.result: last_result_text = message.result`
NextResultText(old, r) == IF Truthy(r) THEN r ELSE old

\* A drain that takes no notice of a ResultMessage without text.
HandleMessage_TextlessResultIgnored(f, m) ==
    IF m.type = "assistant"
    THEN [f EXCEPT !.text_parts = @ \o TextsOf(m.content)]
    ELSE IF m.type = "result" /\ Truthy(m.result)
    THEN [f EXCEPT !.result_count = CountResult(@), !.last_result_text = m.result]
    ELSE f

\* One iteration of the drain loop's message handling, on frame f.
HandleMessage(f, m) ==
    IF m.type = "assistant"
    THEN [f EXCEPT !.text_parts = @ \o TextsOf(m.content)]
    ELSE IF m.type = "result"
    THEN [f EXCEPT !.result_count = CountResult(@),
                   !.last_result_text = NextResultText(@, m.result)]
    ELSE f

\* Every idle timeout taken for a hang.
IsHang_AnyTimeout(to, n) == to

\* `timed_out and result_count == 0`: a genuine hang.
IsHang(to, n) == to /\ n = 0

\* The fragments joined with nothing between them.
FinalOutput_NoSeparator(lrt, parts) == Strip(IF lrt # None THEN lrt[1] ELSE Concat(parts))

\* final_output.strip()
FinalOutput(lrt, parts) == Strip(IF lrt # None THEN lrt[1] ELSE Join(parts))

\* ------------------------------------------------------------- returning
\* How an operation ended, with the frame it ended in and the table it left.
RetOf(f, op, kind, success, output, error, path, tbl) ==
    [ kind |-> kind, op |-> op, chat_id |-> f.chat_id, success |-> success,
      output |-> output, error |-> error, path |-> path,
      timed_out |-> f.timed_out, result_count |-> f.result_count,
      received |-> f.received, armed |-> f.armed,
      on_assistant_text |-> f.on_assistant_text, forwarded |-> f.forwarded,
      disc_failed |-> f.disc_failed, client |-> f.client, closing |-> f.closing,
      in_table |-> \E i \in 1..Len(tbl) : tbl[i].chat = f.chat_id ]

\* A lock released by hand after the call, which an exception skips.
ReleaseOnExit_NotOnException(owner, p, kind) ==
    IF owner = p /\ kind = "returned" THEN 0 ELSE owner

\* `async with lock` exit: the holder releases on return and on exception.
ReleaseOnExit(owner, p, kind) == IF owner = p THEN 0 ELSE owner

\* execute() ends: the frame is dropped and the lock of its chat released.
EndExecute(p, f, kind, success, output, error, path, tbl) ==
    /\ last' = RetOf(f, "execute", kind, success, output, error, path, tbl)
    /\ call' = [call EXCEPT ![p] = IdleFrame]
    /\ lockOwner' = [lockOwner EXCEPT ![f.chat_id] = ReleaseOnExit(@, p, kind)]

\* reset_chat() or shutdown() ends.
EndOther(p, f, op, kind, tbl) ==
    /\ last' = RetOf(f, op, kind, kind = "returned", <<>>, "none", op, tbl)
    /\ call' = [call EXCEPT ![p] = IdleFrame]

\* The except-handler of _execute_locked, entered with frame f: _reset_client
\* returns at once when the chat has no client, and otherwise awaits
\* disconnect() on the client the table holds.
ExceptHandler(p, f, ss) ==
    IF HasClient(f.chat_id)
    THEN /\ sess' = Disconnected(ss, ClientOf(f.chat_id))
         /\ call' = [call EXCEPT ![p] =
                [f EXCEPT !.pc = "ex_err_disc", !.closing = ClientOf(f.chat_id)]]
         /\ UNCHANGED <<clients, lockOwner, last>>
    ELSE /\ sess' = ss
         /\ EndExecute(p, f, "returned", FALSE, <<>>, "unexpected", "error", clients)
         /\ UNCHANGED clients

\* ------------------------------------------------------------- execute
\* execute(): _get_lock creates the chat's lock when it has none, and the
\* task queues on it.
Execute(p, c, cb) ==
    /\ call[p].pc = "idle"
    /\ calls < MaxCalls
    /\ calls' = calls + 1
    /\ locks' = locks \cup {c}
    /\ lockQueue' = [lockQueue EXCEPT ![c] = Append(@, p)]
    /\ call' = [call EXCEPT ![p] =
           [IdleFrame EXCEPT !.pc = "ex_lock", !.chat_id = c, !.on_assistant_text = cb]]
    /\ last' = NoRet
    /\ UNCHANGED <<clients, lockOwner, sess>>
    /\ UNCHANGED hbvars

\* A lock that is not the one the running call holds (a fresh lock per call).
CanAcquire_IgnoresHolder(p, c) == lockQueue[c] # <<>> /\ Head(lockQueue[c]) = p

\* One lock for the whole executor: free only when no chat is being served.
CanAcquire_OneLockForAll(p, c) ==
    (\A d \in Chats : lockOwner[d] = 0) /\ lockQueue[c] # <<>> /\ Head(lockQueue[c]) = p

\* asyncio.Lock: free, and the task is first in line.
CanAcquire(p, c) == lockOwner[c] = 0 /\ lockQueue[c] # <<>> /\ Head(lockQueue[c]) = p

\* A client constructed for every call, whatever the table holds.
NeedsConnect_Always(c) == TRUE

\* `if chat_id not in self._clients:` in _get_client.
NeedsConnect(c) == ~HasClient(c)

\* The lock is acquired and _execute_locked runs up to its first await:
\* _get_client either finds the chat's client or constructs one and awaits
\* connect().
ExAcquire(p) ==
    LET c == call[p].chat_id IN
    /\ call[p].pc = "ex_lock"
    /\ CanAcquire(p, c)
    /\ lockOwner' = [lockOwner EXCEPT ![c] = p]
    /\ lockQueue' = [lockQueue EXCEPT ![c] = Tail(@)]
    /\ IF NeedsConnect(c)
       THEN /\ sess' = Append(sess, [chat |-> c, st |-> "connecting"])
            /\ call' = [call EXCEPT ![p].pc = "ex_connect", ![p].client = Len(sess) + 1]
       ELSE /\ call' = [call EXCEPT ![p].pc = "ex_query", ![p].client = ClientOf(c)]
            /\ sess' = sess
    /\ UNCHANGED <<clients, locks, calls, last>>
    /\ UNCHANGED hbvars

\* connect() completes: the client enters the table and query() is awaited;
\* or connect() raises.
ExConnect(p, ok) ==
    LET f == call[p] IN
    /\ f.pc = "ex_connect"
    /\ IF ok
       THEN /\ sess' = [sess EXCEPT ![f.client].st = "connected"]
            /\ clients' = PutClient(clients, f.chat_id, f.client)
            /\ call' = [call EXCEPT ![p].pc = "ex_query"]
            /\ UNCHANGED <<lockOwner, last>>
       ELSE ExceptHandler(p, f, [sess EXCEPT ![f.client].st = "failed"])
    /\ UNCHANGED <<locks, lockQueue, calls>>
    /\ UNCHANGED hbvars

\* query(prompt) completes and the drain starts; or query() raises.
ExQuery(p, ok) ==
    LET f == call[p] IN
    /\ f.pc = "ex_query"
    /\ IF ok
       THEN /\ call' = [call EXCEPT ![p].pc = "ex_drain"]
            /\ UNCHANGED <<clients, lockOwner, sess, last>>
       ELSE ExceptHandler(p, f, sess)
    /\ UNCHANGED <<locks, lockQueue, calls>>
    /\ UNCHANGED hbvars

\* The least combined length of a message's text that is streamed.
MIN_STREAM_LENGTH == 200

\* `if on_assistant_text and msg_text_parts:` and
\* `if len(combined) >= MIN_STREAM_LENGTH:` with combined the joined parts.
ShouldStream(cb, parts) ==
    cb /\ parts # <<>> /\ Len(Join(parts)) >= MIN_STREAM_LENGTH

\* The callback called with the newest text ahead of the earlier ones.
Deliver_NewestFirst(fwd, text) == <<text>> \o fwd

\* on_assistant_text(combined) is called: one more text handed over.
Deliver(fwd, text) == Append(fwd, text)

\* After the loop: a hang resets the client and fails, anything else succeeds.
AfterDrain(p, f) ==
    IF IsHang(f.timed_out, f.result_count)
    THEN IF HasClient(f.chat_id)
         THEN /\ sess' = Disconnected(sess, ClientOf(f.chat_id))
              /\ call' = [call EXCEPT ![p] =
                     [f EXCEPT !.pc = "ex_hang_disc", !.closing = ClientOf(f.chat_id)]]
              /\ UNCHANGED <<clients, lockOwner, last>>
         ELSE /\ EndExecute(p, f, "returned", FALSE, <<>>, "timeout", "hang", clients)
              /\ UNCHANGED <<clients, sess>>
    ELSE /\ EndExecute(p, f, "returned", TRUE,
                       FinalOutput(f.last_result_text, f.text_parts), "none",
                       IF f.timed_out THEN "timeout_ok" ELSE "ok", clients)
         /\ UNCHANGED <<clients, sess>>

\* One wait_for(_next_message(msg_iter), timeout) of the drain loop, and the
\* handling of the message up to the next await: the next wait_for, or the
\* callback when the message's text is streamed.
ExRecv(p, e) ==
    LET f == [call[p] EXCEPT !.armed = Append(@, IdleTimeoutFor(call[p].result_count))] IN
    /\ f.pc = "ex_drain"
    /\ IF e.ev = "msg"
       THEN /\ call' = [call EXCEPT ![p] =
                   [HandleMessage(f, e.msg) EXCEPT
                       !.received = Append(@, e.msg),
                       !.pc = IF e.msg.type = "assistant"
                                 /\ ShouldStream(f.on_assistant_text, TextsOf(e.msg.content))
                              THEN "ex_callback" ELSE "ex_drain",
                       !.forwarded =
                              IF e.msg.type = "assistant"
                                 /\ ShouldStream(f.on_assistant_text, TextsOf(e.msg.content))
                              THEN Deliver(@, Join(TextsOf(e.msg.content))) ELSE @]]
            /\ UNCHANGED <<clients, lockOwner, sess, last>>
       ELSE IF e.ev = "end" THEN AfterDrain(p, f)
       ELSE IF e.ev = "timeout" THEN AfterDrain(p, [f EXCEPT !.timed_out = TRUE])
       ELSE ExceptHandler(p, f, sess)
    /\ UNCHANGED <<locks, lockQueue, calls>>
    /\ UNCHANGED hbvars

\* `await on_assistant_text(combined)` completes and the loop goes on; or the
\* callback raises, inside the try block.
ExCallback(p, ok) ==
    LET f == call[p] IN
    /\ f.pc = "ex_callback"
    /\ IF ok
       THEN /\ call' = [call EXCEPT ![p].pc = "ex_drain"]
            /\ UNCHANGED <<clients, lockOwner, sess, last>>
       ELSE ExceptHandler(p, f, sess)
    /\ UNCHANGED <<locks, lockQueue, calls>>
    /\ UNCHANGED hbvars

\* The hang path's disconnect() is over (its failure suppressed) and
\* `del self._clients[chat_id]` runs.  A KeyError is raised inside the try
\* block: the except-handler catches it, finds no client and returns.
ExHangDisc(p, ok) ==
    LET f == [call[p] EXCEPT !.disc_failed = ~ok] IN
    /\ f.pc = "ex_hang_disc"
    /\ IF HasClient(f.chat_id)
       THEN /\ clients' = DelClient(clients, f.chat_id)
            /\ EndExecute(p, f, "returned", FALSE, <<>>, "timeout", "hang", clients')
       ELSE /\ clients' = clients
            /\ EndExecute(p, f, "returned", FALSE, <<>>, "unexpected", "hang", clients)
    /\ UNCHANGED <<locks, lockQueue, sess, calls>>
    /\ UNCHANGED hbvars

\* The except-handler's disconnect() is over and `del` runs; a KeyError here
\* is raised from inside the handler and leaves execute().
ExErrDisc(p, ok) ==
    LET f == [call[p] EXCEPT !.disc_failed = ~ok] IN
    /\ f.pc = "ex_err_disc"
    /\ IF HasClient(f.chat_id)
       THEN /\ clients' = DelClient(clients, f.chat_id)
            /\ EndExecute(p, f, "returned", FALSE, <<>>, "unexpected", "error", clients')
       ELSE /\ clients' = clients
            /\ EndExecute(p, f, "raised", FALSE, <<>>, "KeyError", "error", clients)
    /\ UNCHANGED <<locks, lockQueue, sess, calls>>
    /\ UNCHANGED hbvars

\* ------------------------------------------------------------- reset
\* reset_chat(): _reset_client without the chat's lock.  It returns at once
\* when the chat has no client and otherwise awaits disconnect().
Reset(p, c) ==
    /\ call[p].pc = "idle"
    /\ calls < MaxCalls
    /\ calls' = calls + 1
    /\ IF HasClient(c)
       THEN /\ sess' = Disconnected(sess, ClientOf(c))
            /\ call' = [call EXCEPT ![p] =
                   [IdleFrame EXCEPT !.pc = "rs_disc", !.chat_id = c, !.closing = ClientOf(c)]]
            /\ last' = NoRet
       ELSE /\ sess' = sess
            /\ EndOther(p, [IdleFrame EXCEPT !.chat_id = c], "reset", "returned", clients)
    /\ UNCHANGED <<clients, locks, lockOwner, lockQueue>>
    /\ UNCHANGED hbvars

\* disconnect() is over (its failure suppressed) and `del` runs; the chat's
\* entry may be gone by now, and then `del` raises KeyError.
RsDisc(p, ok) ==
    LET f == [call[p] EXCEPT !.disc_failed = ~ok] IN
    /\ f.pc = "rs_disc"
    /\ IF HasClient(f.chat_id)
       THEN /\ clients' = DelClient(clients, f.chat_id)
            /\ EndOther(p, f, "reset", "returned", clients')
       ELSE /\ clients' = clients
            /\ EndOther(p, f, "reset", "raised", clients)
    /\ UNCHANGED <<locks, lockOwner, lockQueue, sess, calls>>
    /\ UNCHANGED hbvars

\* ------------------------------------------------------------- shutdown
\* shutdown(): iterates a snapshot of the table, awaiting disconnect() on
\* each client; with an empty snapshot it clears the table at once.
Shutdown(p) ==
    /\ call[p].pc = "idle"
    /\ calls < MaxCalls
    /\ calls' = calls + 1
    /\ IF clients = <<>>
       THEN /\ clients' = <<>>
            /\ sess' = sess
            /\ EndOther(p, IdleFrame, "shutdown", "returned", <<>>)
       ELSE /\ clients' = clients
            /\ sess' = Disconnected(sess, clients[1].sid)
            /\ call' = [call EXCEPT ![p] =
                   [IdleFrame EXCEPT !.pc = "sd_disc", !.todo = clients,
                                     !.closing = clients[1].sid]]
            /\ last' = NoRet
    /\ UNCHANGED <<locks, lockOwner, lockQueue>>
    /\ UNCHANGED hbvars

\* One disconnect() of the loop is over (a failure is logged): the next
\* client of the snapshot is disconnected, or the table is cleared.
SdDisc(p, ok) ==
    LET f == [call[p] EXCEPT !.disc_failed = @ \/ ~ok]
        rest == Tail(f.todo)
    IN
    /\ f.pc = "sd_disc"
    /\ IF rest = <<>>
       THEN /\ clients' = <<>>
            /\ sess' = sess
            /\ EndOther(p, f, "shutdown", "returned", <<>>)
       ELSE /\ clients' = clients
            /\ sess' = Disconnected(sess, rest[1].sid)
            /\ call' = [call EXCEPT ![p] = [f EXCEPT !.todo = rest, !.closing = rest[1].sid]]
            /\ last' = last
    /\ UNCHANGED <<locks, lockOwner, lockQueue, calls>>
    /\ UNCHANGED hbvars

\* ------------------------------------------------------------- heartbeat scheduler
\* What the scheduler leaves alone: the session executor's part of the
\* state, and the calls into the heartbeat executor and the classifier.
execvars == <<clients, locks, lockOwner, lockQueue, sess, calls, call, last, hbx, cls,
              ucall, hook>>

\* What `await self.executor.execute()` can produce: a result, or an exception.
HbOutcomes ==
    { [raised |-> FALSE, result |-> r] : r \in [success : BOOLEAN, should_deliver : BOOLEAN] }
        \cup { [raised |-> TRUE, result |-> NoResult] }

\* A loop task start() has just created: not yet run.
\* ticks counts its loop iterations, sleeps its calls of asyncio.sleep, nap is
\* the length of its latest sleep, clock what its latest tick read of the
\* active-hours window.
NewTask ==
    [ pc |-> "new", cancel |-> FALSE, ticks |-> 0, sleeps |-> 0, nap |-> 0,
      clock |-> "unread", result |-> NoResult, alerts |-> 0 ]

\* config.interval in seconds: the default "30m", and "1h".
Intervals == {1800, 3600}

\* Where a loop task can be suspended, and how it can have ended.
Live == {"new", "exec", "alert", "sleep"}
Ended == {"cancelled", "crashed", "done"}

\* What the delivery's get_target_chat() reports: no target (target "none",
\* or "last" with no activity yet), or a conversation.
Targets == {None, Some(1)}

\* HeartbeatScheduler(config, executor, on_alert): en is config.enabled, cb
\* whether on_alert is given, win whether config.active_hours is set, iv
\* config.interval.  tg is the target of the HeartbeatDelivery made beside
\* it; the scheduler is given no way to ask for it.
NewScheduler(en, cb, win, iv, tg) ==
    /\ ~sched.made
    /\ sched' = [ made |-> TRUE, enabled |-> en, on_alert |-> cb, active_hours |-> win,
                  interval |-> iv, target |-> tg, running |-> FALSE, task |-> 0 ]
    /\ UNCHANGED <<tasks, hcall, beat>>
    /\ UNCHANGED execvars

\* start() creating a task whenever the configuration is enabled.
MayStart_IgnoresRunning(en, run) == en

\* start() goes on past its two early returns: enabled, and not running.
MayStart(en, run) == en /\ ~run

\* start()
Start ==
    /\ sched.made
    /\ hcall.starts < MaxStarts
    /\ hcall' = [hcall EXCEPT !.starts = @ + 1]
    /\ IF MayStart(sched.enabled, sched.running)
       THEN /\ sched' = [sched EXCEPT !.running = TRUE, !.task = Len(tasks) + 1]
            /\ tasks' = Append(tasks, NewTask)
       ELSE UNCHANGED <<sched, tasks>>
    /\ UNCHANGED beat
    /\ UNCHANGED execvars

\* A loop task that is over keeps none of its coroutine's state.
Gone(tk, how) == [NewTask EXCEPT !.pc = how, !.cancel = tk.cancel]

\* task.cancel(): a request, which a task that has ended ignores.
Cancel(ts, t) == IF ts[t].pc \in Live THEN [ts EXCEPT ![t].cancel = TRUE] ELSE ts

\* stop() up to its await: nothing when not running; otherwise _running is
\* cleared and the task, if any, is cancelled and awaited.
Stop ==
    /\ sched.made
    /\ hcall.stop.pc = "idle"
    /\ IF ~sched.running
       THEN UNCHANGED <<sched, tasks, hcall>>
       ELSE /\ sched' = [sched EXCEPT !.running = FALSE]
            /\ IF sched.task # 0
               THEN /\ tasks' = Cancel(tasks, sched.task)
                    /\ hcall' = [hcall EXCEPT !.stop = [pc |-> "await", task |-> sched.task]]
               ELSE UNCHANGED <<tasks, hcall>>
    /\ UNCHANGED beat
    /\ UNCHANGED execvars

\* `await self._task` is over.  The task's CancelledError is caught and
\* _task cleared; the exception of a task that crashed leaves stop() before
\* `self._task = None`.
StopDone ==
    /\ hcall.stop.pc = "await"
    /\ tasks[hcall.stop.task].pc \in Ended
    /\ hcall' = [hcall EXCEPT !.stop = [pc |-> "idle", task |-> 0]]
    /\ sched' = IF tasks[hcall.stop.task].pc = "crashed" THEN sched
                ELSE [sched EXCEPT !.task = 0]
    /\ UNCHANGED <<tasks, beat>>
    /\ UNCHANGED execvars

\* A scheduler that takes no notice of the active-hours window.
ShouldExecute_Always(win, within) == TRUE

\* _should_execute(): no window configured, or the clock is within it.
ShouldExecute(win, within) == ~win \/ within

\* `result.success` (else the early return) and
\* `result.should_deliver and self.on_alert`.
ShouldAlert_IgnoresSuccess(r, cb) == r.should_deliver /\ cb

ShouldAlert(r, cb) == r.success /\ r.should_deliver /\ cb

\* How _execute_heartbeat goes on when executor.execute() is over: into the
\* alert callback, or to its end.
AfterExecute(o, cb) ==
    IF o.raised THEN "raised"
    ELSE IF ShouldAlert(o.result, cb) THEN "alert"
    ELSE IF ~o.result.success THEN "failed"
    ELSE "suppressed"

\* A loop whose tick is not guarded: an exception ends the task.
TickEnds_Unguarded(how) == IF how \in {"raised", "alert_raised"} THEN "crashed" ELSE "sleep"

\* Where the loop is after a tick's _execute_heartbeat, however it went:
\* `except Exception` has logged what was raised, and the loop sleeps.
TickEnds(how) == "sleep"

\* What a tick reads of the window: nothing when none is configured.
ReadClock(win, within) ==
    IF ~win THEN "unread" ELSE IF within THEN "within" ELSE "outside"

\* A loop that sleeps for the default interval whatever is configured.
Asleep_DefaultInterval(tk, iv) ==
    [tk EXCEPT !.pc = "sleep", !.sleeps = @ + 1, !.nap = 1800]

\* The task in `await asyncio.sleep(interval_secs)`.
Asleep(tk, iv) == [tk EXCEPT !.pc = "sleep", !.sleeps = @ + 1, !.nap = iv]

\* The task after a tick's _execute_heartbeat: in its sleep, if the loop goes on.
EndTick(tk, how, iv) ==
    IF TickEnds(how) = "sleep" THEN Asleep(tk, iv) ELSE [tk EXCEPT !.pc = TickEnds(how)]

\* The record of a heartbeat execution that is over.
BeatOf(by, how, o, n) ==
    [by |-> by, how |-> how, raised |-> o.raised, result |-> o.result, alerts |-> n]

\* The cancellation reaches loop task t at the await it is suspended in (or
\* before it ever ran): CancelledError passes `except Exception`, is logged
\* by _run_loop and re-raised.
LoopCancelled(t) ==
    /\ t \in 1..Len(tasks)
    /\ tasks[t].pc \in Live
    /\ tasks[t].cancel
    /\ tasks' = [tasks EXCEPT ![t] = Gone(@, "cancelled")]
    /\ UNCHANGED <<sched, hcall, beat>>
    /\ UNCHANGED execvars

\* Loop task t runs from its start, or from the end of its sleep, to its
\* next await: `while self._running`, _should_execute(), and then either
\* executor.execute() or the next sleep.
LoopTick(t, within) ==
    /\ t \in 1..Len(tasks)
    /\ tasks[t].pc \in {"new", "sleep"}
    /\ ~tasks[t].cancel
    /\ IF ~sched.running
       THEN tasks' = [tasks EXCEPT ![t] = Gone(@, "done")]
       ELSE /\ tasks[t].ticks < MaxTicks
            /\ tasks' = [tasks EXCEPT ![t] =
                   IF ShouldExecute(sched.active_hours, within)
                   THEN [@ EXCEPT !.ticks = @ + 1, !.alerts = 0, !.pc = "exec",
                                  !.clock = ReadClock(sched.active_hours, within)]
                   ELSE Asleep([@ EXCEPT !.ticks = @ + 1, !.alerts = 0,
                                         !.clock = ReadClock(sched.active_hours, within)],
                               sched.interval)]
    /\ UNCHANGED <<sched, hcall, beat>>
    /\ UNCHANGED execvars

\* executor.execute() is over in loop task t.
LoopExecDone(t, o) ==
    /\ t \in 1..Len(tasks)
    /\ tasks[t].pc = "exec"
    /\ ~tasks[t].cancel
    /\ IF AfterExecute(o, sched.on_alert) = "alert"
       THEN /\ tasks' = [tasks EXCEPT ![t].pc = "alert", ![t].result = o.result,
                                      ![t].alerts = @ + 1]
            /\ beat' = beat
       ELSE /\ tasks' = [tasks EXCEPT ![t] =
                              EndTick(@, AfterExecute(o, sched.on_alert), sched.interval)]
            /\ beat' = BeatOf(t, AfterExecute(o, sched.on_alert), o, tasks[t].alerts)
    /\ UNCHANGED <<sched, hcall>>
    /\ UNCHANGED execvars

\* on_alert(result) is over in loop task t: it returned, or raised.
LoopAlertDone(t, ok) ==
    /\ t \in 1..Len(tasks)
    /\ tasks[t].pc = "alert"
    /\ ~tasks[t].cancel
    /\ tasks' = [tasks EXCEPT ![t] =
           EndTick([@ EXCEPT !.result = NoResult, !.alerts = 0],
                   IF ok THEN "delivered" ELSE "alert_raised", sched.interval)]
    /\ beat' = BeatOf(t, IF ok THEN "delivered" ELSE "alert_raised",
                      [raised |-> FALSE, result |-> tasks[t].result], tasks[t].alerts)
    /\ UNCHANGED <<sched, hcall>>
    /\ UNCHANGED execvars

\* A trigger() that sleeps for the interval as a tick does.
TriggerEnds_Sleeps(how) == "sleep"

\* Where trigger() is after its _execute_heartbeat, however it went: back
\* with its caller.
TriggerEnds(how) == "idle"

\* trigger(): _execute_heartbeat up to `await self.executor.execute()`.
Trigger ==
    /\ sched.made
    /\ hcall.trigger.pc = "idle"
    /\ hcall' = [hcall EXCEPT !.trigger = [pc |-> "exec", result |-> NoResult, alerts |-> 0]]
    /\ UNCHANGED <<sched, tasks, beat>>
    /\ UNCHANGED execvars

\* executor.execute() is over in trigger().
TriggerExecDone(o) ==
    /\ hcall.trigger.pc = "exec"
    /\ IF AfterExecute(o, sched.on_alert) = "alert"
       THEN /\ hcall' = [hcall EXCEPT !.trigger = [pc |-> "alert", result |-> o.result,
                                                   alerts |-> @.alerts + 1]]
            /\ beat' = beat
       ELSE /\ hcall' = [hcall EXCEPT !.trigger.pc =
                                  TriggerEnds(AfterExecute(o, sched.on_alert))]
            /\ beat' = BeatOf(0, AfterExecute(o, sched.on_alert), o, hcall.trigger.alerts)
    /\ UNCHANGED <<sched, tasks>>
    /\ UNCHANGED execvars

\* on_alert(result) is over in trigger(): it returned, or raised and was logged.
TriggerAlertDone(ok) ==
    /\ hcall.trigger.pc = "alert"
    /\ hcall' = [hcall EXCEPT !.trigger =
                    [pc |-> TriggerEnds(IF ok THEN "delivered" ELSE "alert_raised"),
                     result |-> NoResult, alerts |-> 0]]
    /\ beat' = BeatOf(0, IF ok THEN "delivered" ELSE "alert_raised",
                      [raised |-> FALSE, result |-> hcall.trigger.result],
                      hcall.trigger.alerts)
    /\ UNCHANGED <<sched, tasks>>
    /\ UNCHANGED execvars

\* ------------------------------------------------------------- response classifier
\* The pattern's literal, as re.IGNORECASE compares it.
MARKER == <<"h", "e", "a", "r", "t", "b", "e", "a", "t", "_", "o", "k">>

\* The lower case of a character (of the letters the modelled texts have).
Lower(ch) ==
    CASE ch = "H" -> "h" [] ch = "E" -> "e" [] ch = "A" -> "a" [] ch = "R" -> "r"
      [] ch = "T" -> "t" [] ch = "B" -> "b" [] ch = "O" -> "o" [] ch = "K" -> "k"
      [] OTHER -> ch

\* `heartbeat_ok` matches s at position i, whatever the case.
MarkerAt(s, i) ==
    /\ i >= 1
    /\ i + Len(MARKER) - 1 <= Len(s)
    /\ \A j \in 1..Len(MARKER) : Lower(s[i + j - 1]) = MARKER[j]

\* What a greedy `\s*` takes of s from position i on.
RECURSIVE SpacesFrom(_, _)
SpacesFrom(s, i) ==
    IF i <= Len(s) /\ s[i] \in Whitespace THEN 1 + SpacesFrom(s, i + 1) ELSE 0

\* `^\s*heartbeat_ok\s*`: the length of its match at the start of s, 0 for none.
PrefixMatch(s) ==
    LET k == SpacesFrom(s, 1)
    IN  IF MarkerAt(s, k + 1)
        THEN k + Len(MARKER) + SpacesFrom(s, k + Len(MARKER) + 1)
        ELSE 0

\* `\s*heartbeat_ok\s*$` matches s from position i to its end.
SuffixMatchAt(s, i) ==
    LET k == SpacesFrom(s, i)
        e == i + k + Len(MARKER)
    IN  /\ MarkerAt(s, i + k)
        /\ e + SpacesFrom(s, e) = Len(s) + 1

\* re.search(pattern, response, re.IGNORECASE)
Search(s) == PrefixMatch(s) > 0 \/ \E i \in 1..Len(s) : SuffixMatchAt(s, i)

\* re.sub scanning s from position i: the first match of the second
\* alternative takes the rest; any other character is kept.
RECURSIVE SubFrom(_, _)
SubFrom(s, i) ==
    IF i > Len(s) THEN <<>>
    ELSE IF SuffixMatchAt(s, i) THEN <<>>
    ELSE <<s[i]>> \o SubFrom(s, i + 1)

\* re.sub(pattern, "", response, flags=re.IGNORECASE): the first alternative
\* can match at the start only, and the scan goes on after its match.
Sub(s) == SubFrom(s, PrefixMatch(s) + 1)

\* A classifier that suppresses up to, but not at, the threshold.
ShouldDeliverAck_AtThreshold(content, ack_max_chars) == Len(content) >= ack_max_chars

\* `len(content) > ack_max_chars`
ShouldDeliverAck(content, ack_max_chars) == Len(content) > ack_max_chars

\* A classifier that strips the marker off every response it returns.
ContentOf_AlwaysStripped(response, is_ok) == Strip(Sub(response))

\* The content returned: stripped of the marker for an acknowledgment, the
\* response itself otherwise.
ContentOf(response, is_ok) == IF is_ok THEN Strip(Sub(response)) ELSE response

\* classify_heartbeat_response(response, ack_max_chars)
classify_heartbeat_response(response, ack_max_chars) ==
    LET is_ok == Search(response)
        content == ContentOf(response, is_ok)
    IN  [ is_ok |-> is_ok,
          content |-> content,
          should_deliver |-> IF is_ok THEN ShouldDeliverAck(content, ack_max_chars)
                             ELSE TRUE ]

\* The pieces the modelled responses are made of: the marker in three
\* spellings, whitespace, and words.
Pieces ==
    { MARKER,
      <<"H", "E", "A", "R", "T", "B", "E", "A", "T", "_", "O", "K">>,
      <<"H", "e", "a", "r", "t", "b", "e", "a", "t", "_", "O", "k">>,
      <<" ">>, <<"\n">>, <<"x">>, <<"a", "b">> }

\* The responses of at most n pieces.
RECURSIVE ResponsesOf(_)
ResponsesOf(n) ==
    IF n = 0 THEN {<<>>}
    ELSE LET shorter == ResponsesOf(n - 1)
         IN  shorter \cup { r \o p : r \in shorter, p \in Pieces }

Responses == ResponsesOf(MaxPieces)

\* config.ack_max_chars: a positive integer.
AckThresholds == 1..MaxAck

\* A call of the classifier on its input.
ClassifyResponse ==
    /\ cls.pc = "in"
    /\ cls' = [cls EXCEPT !.pc = "out",
                          !.out = classify_heartbeat_response(cls.text, cls.ack_max_chars)]
    /\ UNCHANGED <<sched, tasks, hcall, beat, hbx, ucall, hook>>
    /\ UNCHANGED <<clients, locks, lockOwner, lockQueue, sess, calls, call, last>>

\* ------------------------------------------------------------- heartbeat executor
\* The reserved chat id of heartbeat conversations.
HEARTBEAT_CHAT_ID == -999999

\* An executor that runs every heartbeat on the reserved id.
TargetChatId_IgnoresGiven(chat_id) == HEARTBEAT_CHAT_ID

\* target_chat_id = chat_id if chat_id is not None else self.HEARTBEAT_CHAT_ID
TargetChatId(chat_id) == IF chat_id # None THEN chat_id[1] ELSE HEARTBEAT_CHAT_ID

\* The chat_id the scheduler's _execute_heartbeat passes, for a tick and for
\* trigger(): `await self.executor.execute()`, none.
SchedulerArg == None

\* Who calls HeartbeatExecutor.execute(), and with which chat_id.
HbCallers == {"tick", "trigger", "direct"}
ChatArgs(by) ==
    IF by \in {"tick", "trigger"} THEN {SchedulerArg}
    ELSE {None} \cup {Some(c) : c \in Chats}

\* What `await self.claude_executor.execute(...)` can produce: a successful
\* ExecutionResult with its output, a failed one with its error, or an
\* exception.
Errors == {"Connection timeout", "boom"}
ExecOutcomes ==
    { [raised |-> FALSE, success |-> TRUE, output |-> t, error |-> None] : t \in Responses }
        \cup { [raised |-> FALSE, success |-> FALSE, output |-> <<>>, error |-> Some(e)] :
                  e \in Errors }
        \cup { [raised |-> TRUE, success |-> FALSE, output |-> <<>>, error |-> Some(e)] :
                  e \in Errors }

\* An executor that classifies the output of a failed execution too.
ResultOf_ClassifiesFailures(o, ack_max_chars) ==
    IF o.raised
    THEN [ success |-> FALSE, content |-> <<>>, should_deliver |-> FALSE, is_ok |-> FALSE,
           error |-> Some(<<"Unexpected error: ", o.error[1]>>) ]
    ELSE LET classification == classify_heartbeat_response(o.output, ack_max_chars)
         IN  [ success |-> o.success, content |-> classification.content,
               should_deliver |-> classification.should_deliver,
               is_ok |-> classification.is_ok, error |-> o.error ]

\* The HeartbeatResult execute() returns for what the session executor
\* produced: the `except Exception` result, the `not result.success` result,
\* or the classification of the output.
ResultOf(o, ack_max_chars) ==
    IF o.raised
    THEN [ success |-> FALSE, content |-> <<>>, should_deliver |-> FALSE, is_ok |-> FALSE,
           error |-> Some(<<"Unexpected error: ", o.error[1]>>) ]
    ELSE IF ~o.success
    THEN [ success |-> FALSE, content |-> <<>>, should_deliver |-> FALSE, is_ok |-> FALSE,
           error |-> o.error ]
    ELSE LET classification == classify_heartbeat_response(o.output, ack_max_chars)
         IN  [ success |-> TRUE, content |-> classification.content,
               should_deliver |-> classification.should_deliver,
               is_ok |-> classification.is_ok, error |-> None ]

\* HeartbeatExecutor.execute(chat_id) up to its await of the session
\* executor: the chat id is chosen and the prompt built.  _build_prompt is
\* called before the try, so what it raises (built false: reading the
\* checklist file failed) leaves execute().
HbExecute(by, chat_id, ack_max_chars, built) ==
    /\ hbx.pc \in {"idle", "done", "raised"}
    /\ hbx' = [ pc |-> IF built THEN "call" ELSE "raised",
                by |-> by, chat_id |-> chat_id,
                target_chat_id |-> TargetChatId(chat_id),
                ack_max_chars |-> ack_max_chars,
                exec |-> NoExecution, result |-> NoHeartbeatResult ]
    /\ UNCHANGED <<sched, tasks, hcall, beat, cls, ucall, hook>>
    /\ UNCHANGED <<clients, locks, lockOwner, lockQueue, sess, calls, call, last>>

\* The session executor's execute() is over: execute() returns its result.
HbExecuteDone(o) ==
    /\ hbx.pc = "call"
    /\ hbx' = [hbx EXCEPT !.pc = "done", !.exec = o,
                          !.result = ResultOf(o, hbx.ack_max_chars)]
    /\ UNCHANGED <<sched, tasks, hcall, beat, cls, ucall, hook>>
    /\ UNCHANGED <<clients, locks, lockOwner, lockQueue, sess, calls, call, last>>

\* ------------------------------------------------------------- active hours
Digits == {"0", "1", "2", "3", "4", "5", "6", "7", "8", "9"}
DigitVal ==
    "0" :> 0 @@ "1" :> 1 @@ "2" :> 2 @@ "3" :> 3 @@ "4" :> 4 @@
    "5" :> 5 @@ "6" :> 6 @@ "7" :> 7 @@ "8" :> 8 @@ "9" :> 9

\* The number a sequence of digits writes.
RECURSIVE NatOf(_)
NatOf(ds) == IF ds = <<>> THEN 0 ELSE 10 * NatOf(SubSeq(ds, 1, Len(ds) - 1)) + DigitVal[ds[Len(ds)]]

AllDigits(ds) == ds # <<>> /\ \A i \in 1..Len(ds) : ds[i] \in Digits

\* A failed parse: the ValueError of int(), time() or the parsers.
Invalid == [ok |-> FALSE]

\* int(s): surrounding whitespace, an optional sign, digits.
ParseInt(s) ==
    LET t == Strip(s)
        signed == t # <<>> /\ t[1] \in {"+", "-"}
        ds == IF signed THEN Tail(t) ELSE t
    IN  IF AllDigits(ds)
        THEN [ok |-> TRUE, val |-> IF signed /\ t[1] = "-" THEN 0 - NatOf(ds) ELSE NatOf(ds)]
        ELSE Invalid

\* s.split(ch)
RECURSIVE SplitOn(_, _)
SplitOn(s, ch) ==
    IF \A i \in 1..Len(s) : s[i] # ch THEN <<s>>
    ELSE LET p == CHOOSE i \in 1..Len(s) : s[i] = ch /\ \A k \in 1..(i - 1) : s[k] # ch
         IN  <<SubSeq(s, 1, p - 1)>> \o SplitOn(SubSeq(s, p + 1, Len(s)), ch)

\* time(hour=hour, minute=minute), which raises out of range.
TimeOf(hour, minute) ==
    IF hour.ok /\ minute.ok /\ hour.val \in 0..23 /\ minute.val \in 0..59
    THEN [ok |-> TRUE, hour |-> hour.val, minute |-> minute.val]
    ELSE Invalid

\* parse_time(time_str)
parse_time(time_str) ==
    LET t == Strip(time_str)
    IN  IF \E i \in 1..Len(t) : t[i] = ":"
        THEN LET parts == SplitOn(t, ":")
             IN  IF Len(parts) # 2 THEN Invalid
                 ELSE TimeOf(ParseInt(parts[1]), ParseInt(parts[2]))
        ELSE TimeOf(ParseInt(t), [ok |-> TRUE, val |-> 0])

\* parse_active_hours(active_hours): `^(.+?)\s*-\s*(.+?)$` splits the
\* stripped text at its first dash that has a character before it, and needs
\* one after it.
parse_active_hours(active_hours) ==
    LET t == Strip(active_hours)
        dashes == { i \in 2..Len(t) : t[i] = "-" }
    IN  IF dashes = {} THEN Invalid
        ELSE LET p == CHOOSE i \in dashes : \A k \in dashes : i <= k
             IN  IF p = Len(t) THEN Invalid
                 ELSE LET start_time == parse_time(SubSeq(t, 1, p - 1))
                          end_time == parse_time(SubSeq(t, p + 1, Len(t)))
                      IN  IF start_time.ok /\ end_time.ok
                          THEN [ok |-> TRUE, start_time |-> start_time, end_time |-> end_time]
                          ELSE Invalid

\* The seconds in a day, and a time of day (and a `time` object) in seconds.
DAY == 86400
SecondsOf(t) == t.hour * 3600 + t.minute * 60

\* The zones ZoneInfo knows, with their offsets from UTC in seconds; any
\* other name raises ZoneInfoNotFoundError.
ZoneOffset == "UTC" :> 0 @@ "Asia/Tokyo" :> 32400
KnownZone(tz) == tz \in DOMAIN ZoneOffset

\* now.astimezone(zone).time(): the time of day of an instant [day, sec]
\* (in UTC) in the zone.
LocalTimeOfDay(now, tz) == (now.sec + ZoneOffset[tz]) % DAY

\* A window whose end boundary is inside it.
InWindow_EndInclusive(start_time, end_time, current) ==
    IF end_time <= start_time
    THEN current >= start_time \/ current <= end_time
    ELSE start_time <= current /\ current <= end_time

\* The comparison of is_within_active_hours: overnight when end <= start.
InWindow(start_time, end_time, current) ==
    IF end_time <= start_time
    THEN current >= start_time \/ current < end_time
    ELSE start_time <= current /\ current < end_time

\* is_within_active_hours(active_hours, tz, now): the answer, or the
\* exception raised.
is_within_active_hours(active_hours, tz, now) ==
    IF active_hours = None \/ Strip(active_hours[1]) = <<>>
    THEN [raised |-> "none", value |-> TRUE]
    ELSE LET window == parse_active_hours(active_hours[1])
         IN  IF ~window.ok THEN [raised |-> "ValueError", value |-> FALSE]
             ELSE IF ~KnownZone(tz) THEN [raised |-> "ZoneInfoNotFoundError", value |-> FALSE]
             ELSE [ raised |-> "none",
                    value |-> InWindow(SecondsOf(window.start_time),
                                       SecondsOf(window.end_time),
                                       LocalTimeOfDay(now, tz)) ]

\* The windows, zones and instants of the modelled calls.
Windows ==
    { None,
      Some(<<"9", "-", "1", "7">>), Some(<<"2", "2", ":", "0", "0", "-", "0", "6", ":", "0", "0">>), Some(<<"9", "-", "9">>), Some(<<"9", ":", "3", "0", " ", "-", " ", "1", "7", ":", "0", "0">>),
      Some(<<"9">>), Some(<<"2", "5", "-", "3">>), Some(<<"a", "-", "b">>) }

Zones == {"UTC", "Asia/Tokyo", "Mars/Phobos"}

ClockTimes == {0, 21600, 32399, 32400, 34200, 43200, 61199, 61200, 79200, 82800}
Instants == { [day |-> d, sec |-> t] : d \in 0..MaxDay, t \in ClockTimes }

\* A call of is_within_active_hours on its input.
IsWithinActiveHours ==
    /\ ucall.pc = "in" /\ ucall.fn = "is_within_active_hours"
    /\ ucall' = [ucall EXCEPT !.pc = "out",
                    !.out = is_within_active_hours(ucall.args.active_hours,
                                                   ucall.args.tz, ucall.args.now)]
    /\ UNCHANGED <<sched, tasks, hcall, beat, hbx, cls, hook>>
    /\ UNCHANGED <<clients, locks, lockOwner, lockQueue, sess, calls, call, last>>

ActiveHoursCalls ==
    { [pc |-> "in", fn |-> "is_within_active_hours",
       args |-> [active_hours |-> w, tz |-> z, now |-> n], out |-> <<>>] :
         w \in Windows, z \in Zones, n \in Instants }

\* ------------------------------------------------------------- interval parsing
\* duration.lower(), for the letters the modelled strings have.
LowerUnit(ch) ==
    CASE ch = "D" -> "d" [] ch = "H" -> "h" [] ch = "M" -> "m" [] ch = "S" -> "s"
      [] OTHER -> ch

\* The units, in seconds.
UnitSeconds == "d" :> 86400 @@ "h" :> 3600 @@ "m" :> 60 @@ "s" :> 1

\* What a greedy `\d+` takes of s from position i on.
RECURSIVE DigitsFrom(_, _)
DigitsFrom(s, i) ==
    IF i <= Len(s) /\ s[i] \in Digits THEN 1 + DigitsFrom(s, i + 1) ELSE 0

\* `(\d+(?:\.\d+)?)\s*([dhms])` at position i of s: the integer digits, the
\* fraction digits if a dot and digits follow, whitespace, and a unit.
TokenAt(s, i) ==
    LET n == DigitsFrom(s, i)
        j == i + n
        f == IF j <= Len(s) /\ s[j] = "." THEN DigitsFrom(s, j + 1) ELSE 0
        k == IF f > 0 THEN j + 1 + f ELSE j
        u == k + SpacesFrom(s, k)
    IN  IF n > 0 /\ u <= Len(s) /\ LowerUnit(s[u]) \in DOMAIN UnitSeconds
        THEN [ ok |-> TRUE, int |-> SubSeq(s, i, j - 1),
               frac |-> IF f > 0 THEN SubSeq(s, j + 1, k - 1) ELSE <<>>,
               unit |-> LowerUnit(s[u]), next |-> u + 1 ]
        ELSE Invalid

\* re.findall(pattern, duration.lower()): the tokens found scanning from i,
\* going on after each match and past every other character.
RECURSIVE TokensFrom(_, _)
TokensFrom(s, i) ==
    IF i > Len(s) THEN <<>>
    ELSE LET t == TokenAt(s, i)
         IN  IF t.ok THEN <<t>> \o TokensFrom(s, t.next) ELSE TokensFrom(s, i + 1)

RECURSIVE Pow10(_)
Pow10(k) == IF k = 0 THEN 1 ELSE 10 * Pow10(k - 1)

\* `value <= 0` for value = float(value_str).
NonPositive(t) == NatOf(t.int) = 0 /\ NatOf(t.frac) = 0

\* A parser that rejects only a duration that is zero as a whole.
AnyNonPositive_OnlyTotal(ts) == \A i \in 1..Len(ts) : NonPositive(ts[i])

\* The loop's check: some component is not positive.
AnyNonPositive(ts) == \E i \in 1..Len(ts) : NonPositive(ts[i])

\* A component's whole seconds, and what is left of it in units of 1e-7 s.
WholeSeconds(t) ==
    NatOf(t.int) * UnitSeconds[t.unit]
        + (NatOf(t.frac) * UnitSeconds[t.unit]) \div Pow10(Len(t.frac))
RestE7(t) ==
    ((NatOf(t.frac) * UnitSeconds[t.unit]) % Pow10(Len(t.frac))) * Pow10(7 - Len(t.frac))

RECURSIVE SumWholeSeconds(_)
SumWholeSeconds(ts) ==
    IF ts = <<>> THEN 0 ELSE WholeSeconds(ts[1]) + SumWholeSeconds(Tail(ts))

RECURSIVE SumRestE7(_)
SumRestE7(ts) == IF ts = <<>> THEN 0 ELSE RestE7(ts[1]) + SumRestE7(Tail(ts))

\* timedelta(**kwargs): the components added up, in whole seconds and
\* microseconds, the microseconds rounded half to even.
TimeDelta(ts) ==
    LET rest == SumRestE7(ts)
        q == (rest % Pow10(7)) \div 10
        d == rest % 10
        us == IF d > 5 \/ (d = 5 /\ q % 2 = 1) THEN q + 1 ELSE q
        sec == SumWholeSeconds(ts) + rest \div Pow10(7)
    IN  IF us = 1000000 THEN [sec |-> sec + 1, us |-> 0] ELSE [sec |-> sec, us |-> us]

\* timedelta(minutes=30)
DefaultInterval == [sec |-> 1800, us |-> 0]

\* parse_interval(duration): the timedelta, or the ValueError raised.
parse_interval(duration) ==
    IF duration = None \/ Strip(duration[1]) = <<>>
    THEN [ok |-> TRUE, value |-> DefaultInterval]
    ELSE LET d == Strip(duration[1])
             matches == TokensFrom(d, 1)
         IN  IF \E i \in 1..Len(d) : d[i] = "-"
             THEN [ok |-> FALSE, error |-> "Duration values must be positive"]
             ELSE IF matches = <<>>
             THEN [ok |-> FALSE, error |-> "Invalid duration format"]
             ELSE IF AnyNonPositive(matches)
             THEN [ok |-> FALSE, error |-> "Duration values must be positive"]
             ELSE [ok |-> TRUE, value |-> TimeDelta(matches)]

\* The pieces the modelled interval strings are made of.
IntervalPieces ==
    { <<"3", "0", "m">>, <<"0", "m">>, <<"1", ".", "5", "h">>, <<"0", ".", "0", "0", "0", "0", "0", "0", "1", "s">>, <<"1", "d">>,
      <<"3">>, <<"1">>, <<"s">>, <<"H">>, <<"x">>, <<" ">>, <<"-">>, <<".">> }

RECURSIVE IntervalTextsOf(_)
IntervalTextsOf(n) ==
    IF n = 0 THEN {<<>>}
    ELSE LET shorter == IntervalTextsOf(n - 1)
         IN  shorter \cup { r \o p : r \in shorter, p \in IntervalPieces }

Durations == {None} \cup { Some(t) : t \in IntervalTextsOf(MaxIntervalPieces) }

\* A call of parse_interval on its input.
ParseInterval ==
    /\ ucall.pc = "in" /\ ucall.fn = "parse_interval"
    /\ ucall' = [ucall EXCEPT !.pc = "out", !.out = parse_interval(ucall.args.duration)]
    /\ UNCHANGED <<sched, tasks, hcall, beat, hbx, cls, hook>>
    /\ UNCHANGED <<clients, locks, lockOwner, lockQueue, sess, calls, call, last>>

IntervalCalls ==
    { [pc |-> "in", fn |-> "parse_interval", args |-> [duration |-> d], out |-> <<>>] :
         d \in Durations }

\* ------------------------------------------------------------- heartbeat configuration
\* validate_every: the string is kept when parse_interval takes it.
validate_every(v) == parse_interval(Some(v)).ok

\* validate_active_hours: an empty window becomes None; any other one is
\* kept when parse_active_hours takes it.
validate_active_hours(v) ==
    IF v = None \/ Strip(v[1]) = <<>> THEN [ok |-> TRUE, value |-> None]
    ELSE IF parse_active_hours(v[1]).ok THEN [ok |-> TRUE, value |-> v]
    ELSE Invalid

\* validate_timezone: ZoneInfo(v) finds the zone.
validate_timezone(v) == KnownZone(v)

\* The fields whose validation fails.
FieldErrors(every, active_hours, timezone, ack_max_chars) ==
    {f \in {"every"} : ~validate_every(every)}
      \cup {f \in {"active_hours"} : ~validate_active_hours(active_hours).ok}
      \cup {f \in {"timezone"} : ~validate_timezone(timezone)}
      \cup {f \in {"ack_max_chars"} : ~(ack_max_chars > 0)}

\* HeartbeatConfig(every=, active_hours=, timezone=, ack_max_chars=): the
\* configuration, or the ValidationError with the fields that failed.
HeartbeatConfig(every, active_hours, timezone, ack_max_chars) ==
    LET errors == FieldErrors(every, active_hours, timezone, ack_max_chars)
    IN  IF errors # {} THEN [ok |-> FALSE, errors |-> errors]
        ELSE [ ok |-> TRUE, every |-> every,
               active_hours |-> validate_active_hours(active_hours).value,
               timezone |-> timezone, ack_max_chars |-> ack_max_chars ]

\* HeartbeatConfig.interval
IntervalOf(config) == parse_interval(Some(config.every))

\* HeartbeatScheduler._is_within_active_hours, for a configuration, at an instant.
ConfigWithinActiveHours(config, now) ==
    is_within_active_hours(config.active_hours, config.timezone, now)

\* The field values of the modelled constructions.
Everys == IntervalTextsOf(1)
AckMaxChars == {-1, 0, 1, 300}

\* A construction of a heartbeat configuration, with the interval read once.
NewHeartbeatConfig ==
    /\ ucall.pc = "in" /\ ucall.fn = "HeartbeatConfig"
    /\ LET config == HeartbeatConfig(ucall.args.every, ucall.args.active_hours,
                                     ucall.args.timezone, ucall.args.ack_max_chars)
       IN  ucall' = [ucall EXCEPT !.pc = "out",
                        !.out = IF config.ok
                                THEN [config |-> config, interval |-> IntervalOf(config)]
                                ELSE [config |-> config]]
    /\ UNCHANGED <<sched, tasks, hcall, beat, hbx, cls, hook>>
    /\ UNCHANGED <<clients, locks, lockOwner, lockQueue, sess, calls, call, last>>

ConfigCalls ==
    { [pc |-> "in", fn |-> "HeartbeatConfig",
       args |-> [every |-> e, active_hours |-> w, timezone |-> z, ack_max_chars |-> a],
       out |-> <<>>] :
         e \in Everys, w \in Windows, z \in Zones, a \in AckMaxChars }

\* ------------------------------------------------------------- webhook handler
\* self._max_tracked_updates
max_tracked_updates == 1000

\* The users, the allow-lists of the settings, and the chat of the messages.
Users == {1, 2}
AllowLists == {{}, {1}}
HookChat == 1

\* WebhookHandler(settings, executor): hook.processed is _processed_updates in
\* insertion order. hook.recorded is every id _mark_processed has recorded, in
\* order, hook.handled the number of different update ids handled so far, and
\* hook.done what the last handle_update call did.
NewHandler(allowed) ==
    [ made |-> TRUE, allowed |-> allowed, processed |-> <<>>, recorded |-> <<>>,
      handled |-> 0, done |-> NoDone ]

\* A trim that keeps one entry less than the limit.
Trimmed_OneFewer(processed) ==
    IF Len(processed) >= max_tracked_updates
    THEN SubSeq(processed, Len(processed) - max_tracked_updates + 2, Len(processed))
    ELSE processed

\* `while len(...) > self._max_tracked_updates: popitem(last=False)`
Trimmed(processed) ==
    IF Len(processed) > max_tracked_updates
    THEN SubSeq(processed, Len(processed) - max_tracked_updates + 1, Len(processed))
    ELSE processed

\* _mark_processed(update_id): whether the id is new, and the ids kept.
mark_processed(processed, update_id) ==
    IF \E i \in 1..Len(processed) : processed[i] = update_id
    THEN [fresh |-> FALSE, processed |-> processed]
    ELSE [fresh |-> TRUE, processed |-> Trimmed(Append(processed, update_id))]

\* An allow-list that lets everyone in when it is empty.
is_user_allowed_OpenWhenEmpty(allowed, user_id) ==
    user_id # None /\ (allowed = {} \/ user_id[1] \in allowed)

\* _is_user_allowed(user_id)
is_user_allowed(allowed, user_id) ==
    IF user_id = None THEN FALSE
    ELSE IF allowed = {} THEN FALSE
    ELSE user_id[1] \in allowed

\* text.strip().lower() == "/reset"
IsResetCommand(text) ==
    LET t == Strip(text)
    IN  [i \in 1..Len(t) |-> Lower(t[i])] = <<"/", "r", "e", "s", "e", "t">>

\* What handle_update does for an update that is new, in order: the calls it
\* makes on the executor, the chat history, the activity callback and Telegram.
\* `ok` is the success of the execution, where there is one.
Handling(allowed, message, ok) ==
    IF message = None THEN <<>>
    ELSE IF message[1].text = <<>> THEN <<>>
    ELSE IF ~is_user_allowed(allowed, message[1].user_id)
    THEN <<"send_message:unauthorized">>
    ELSE IF IsResetCommand(message[1].text)
    THEN <<"save_message:system", "reset_chat", "send_message:reset">>
    ELSE <<"on_activity", "save_message:user", "send_chat_action:typing", "execute">>
            \o (IF ok THEN <<"send_message:output", "save_message:assistant">>
                ELSE <<"send_message:error", "save_message:assistant">>)

\* The texts and messages of the modelled updates.
HookTexts == { <<>>, <<"h", "i">>, <<" ", "/", "R", "E", "s", "e", "t", "\n">> }
Messages ==
    {None}
      \cup { Some([user_id |-> None, chat_id |-> HookChat, text |-> <<"h", "i">>]) }
      \cup { Some([user_id |-> Some(u), chat_id |-> HookChat, text |-> t]) :
                u \in Users, t \in HookTexts }

\* The ids an update may carry: the first one ever sent, the latest one (a
\* retry), or the next new one.
UpdateIds == {1, hook.handled, hook.handled + 1} \ {0}

\* handle_update(update), to its return.
HandleUpdate(update_id, message, ok) ==
    /\ hook.made
    /\ update_id \in UpdateIds
    /\ update_id <= MaxUpdates
    /\ LET m == mark_processed(hook.processed, update_id)
           read == m.fresh /\ message # None
       IN  hook' = [hook EXCEPT
                       !.processed = m.processed,
                       !.recorded = IF m.fresh THEN Append(@, update_id) ELSE @,
                       !.handled = IF update_id > @ THEN update_id ELSE @,
                       !.done = [ update_id |-> update_id,
                                  user_id |-> IF read THEN message[1].user_id ELSE None,
                                  text |-> IF read THEN message[1].text ELSE <<>>,
                                  fresh |-> m.fresh,
                                  did |-> IF m.fresh
                                          THEN Handling(hook.allowed, message, ok)
                                          ELSE <<>> ]]
    /\ UNCHANGED <<sched, tasks, hcall, beat, hbx, cls, ucall>>
    /\ UNCHANGED <<clients, locks, lockOwner, lockQueue, sess, calls, call, last>>

\* ------------------------------------------------------------- specifications
\* The modelled streams carry at most n messages.
MayRecv(p, e, n) == e.ev = "msg" => Len(call[p].received) < n

\* What caller p does once its operation is under way.  The event loop runs
\* every ready task, and each awaited connect, query, receive (bounded by its
\* idle timeout) and disconnect comes back.
Progress(p) ==
    \/ ExAcquire(p)
    \/ \E ok \in BOOLEAN : ExConnect(p, ok)
    \/ \E ok \in BOOLEAN : ExQuery(p, ok)
    \/ \E e \in BasicEvents : MayRecv(p, e, MaxMsgs) /\ ExRecv(p, e)
    \/ \E ok \in BOOLEAN : ExHangDisc(p, ok)
    \/ \E ok \in BOOLEAN : ExErrDisc(p, ok)
    \/ \E ok \in BOOLEAN : RsDisc(p, ok)
    \/ \E ok \in BOOLEAN : SdDisc(p, ok)

\* Concurrent callers on two chats.
Next ==
    \E p \in Callers :
        \/ \E c \in Chats : Execute(p, c, FALSE)
        \/ \E c \in Chats : Reset(p, c)
        \/ Shutdown(p)
        \/ Progress(p)

Spec == Init /\ [][Next]_vars

\* Concurrent callers contending for one chat.
ContendNext ==
    \E p \in Callers :
        \/ Execute(p, 1, FALSE)
        \/ Reset(p, 1)
        \/ Shutdown(p)
        \/ Progress(p)

FairSpec == Init /\ [][ContendNext]_vars /\ \A p \in Callers : WF_vars(Progress(p))

\* One caller on one chat, with the richer streams: every drain a call can
\* see, between resets and shutdowns.
DrainNext ==
    \/ Execute(1, 1, FALSE)
    \/ ExAcquire(1)
    \/ \E ok \in BOOLEAN : ExConnect(1, ok)
    \/ \E ok \in BOOLEAN : ExQuery(1, ok)
    \/ \E e \in RichEvents : MayRecv(1, e, MaxDrainMsgs) /\ ExRecv(1, e)
    \/ \E ok \in BOOLEAN : ExHangDisc(1, ok)
    \/ \E ok \in BOOLEAN : ExErrDisc(1, ok)
    \/ Reset(1, 1)
    \/ \E ok \in BOOLEAN : RsDisc(1, ok)
    \/ Shutdown(1)
    \/ \E ok \in BOOLEAN : SdDisc(1, ok)

DrainSpec == Init /\ [][DrainNext]_vars

\* One caller on one chat, with or without a partial-text callback, and
\* streams whose assistant texts reach the streaming length.
StreamNext ==
    \/ \E cb \in BOOLEAN : Execute(1, 1, cb)
    \/ ExAcquire(1)
    \/ \E ok \in BOOLEAN : ExConnect(1, ok)
    \/ \E ok \in BOOLEAN : ExQuery(1, ok)
    \/ \E e \in StreamEvents : MayRecv(1, e, MaxStreamMsgs) /\ ExRecv(1, e)
    \/ \E ok \in BOOLEAN : ExCallback(1, ok)
    \/ \E ok \in BOOLEAN : ExHangDisc(1, ok)
    \/ \E ok \in BOOLEAN : ExErrDisc(1, ok)

StreamSpec == Init /\ [][StreamNext]_vars

\* One caller with a partial-text callback on one chat, and another that
\* resets the chat meanwhile.
CallbackResetNext ==
    \/ Execute(1, 1, TRUE)
    \/ ExAcquire(1)
    \/ \E ok \in BOOLEAN : ExConnect(1, ok)
    \/ \E ok \in BOOLEAN : ExQuery(1, ok)
    \/ \E e \in StreamEvents : MayRecv(1, e, MaxMsgs) /\ ExRecv(1, e)
    \/ \E ok \in BOOLEAN : ExCallback(1, ok)
    \/ \E ok \in BOOLEAN : ExHangDisc(1, ok)
    \/ \E ok \in BOOLEAN : ExErrDisc(1, ok)
    \/ Reset(2, 1)
    \/ \E ok \in BOOLEAN : RsDisc(2, ok)

CallbackResetSpec == Init /\ [][CallbackResetNext]_vars

\* What the event loop does for the heartbeat loop tasks once they wait: a
\* requested cancellation is delivered, and each awaited executor call and
\* alert callback comes back.
LoopProgress ==
    \E t \in 1..MaxStarts :
        \/ LoopCancelled(t)
        \/ \E o \in HbOutcomes : LoopExecDone(t, o)
        \/ \E ok \in BOOLEAN : LoopAlertDone(t, ok)

\* The heartbeat scheduler: its construction, the calls of start, stop and
\* trigger, and its loop tasks.
HbNext ==
    \/ \E en, cb, win \in BOOLEAN, iv \in Intervals, tg \in Targets :
           NewScheduler(en, cb, win, iv, tg)
    \/ Start
    \/ Stop
    \/ StopDone
    \/ Trigger
    \/ \E o \in HbOutcomes : TriggerExecDone(o)
    \/ \E ok \in BOOLEAN : TriggerAlertDone(ok)
    \/ \E t \in 1..MaxStarts, within \in BOOLEAN : LoopTick(t, within)
    \/ LoopProgress

HbSpec == Init /\ [][HbNext]_vars

\* The scheduler without trigger(): what its loop tasks go through.
HbLoopNext ==
    \/ \E en, cb, win \in BOOLEAN, iv \in Intervals, tg \in Targets :
           NewScheduler(en, cb, win, iv, tg)
    \/ Start
    \/ Stop
    \/ StopDone
    \/ \E t \in 1..MaxStarts, within \in BOOLEAN : LoopTick(t, within)
    \/ LoopProgress

HbFairSpec == Init /\ [][HbLoopNext]_vars /\ WF_vars(LoopProgress)

\* The classifier on every modelled response and threshold.
ClassifyInit ==
    /\ ucall = NoUcall
    /\ hook = NoHook
    /\ cls \in { [pc |-> "in", text |-> t, ack_max_chars |-> k, out |-> NoResponse] :
                    t \in Responses, k \in AckThresholds }
    /\ hbx = IdleHbx
    /\ sched = NoScheduler
    /\ tasks = <<>>
    /\ hcall = IdleHcall
    /\ beat = NoBeat
    /\ clients = <<>>
    /\ locks = {}
    /\ lockOwner = [c \in Chats |-> 0]
    /\ lockQueue = [c \in Chats |-> <<>>]
    /\ sess = <<>>
    /\ calls = 0
    /\ call = [p \in Callers |-> IdleFrame]
    /\ last = NoRet

ClassifySpec == ClassifyInit /\ [][ClassifyResponse]_vars

\* The heartbeat executor, called by the scheduler's ticks and trigger() and
\* by a caller that may give a chat id.
HbExecNext ==
    \/ \E by \in HbCallers : \E chat_id \in ChatArgs(by) :
          \E ack_max_chars \in AckThresholds, built \in BOOLEAN :
              HbExecute(by, chat_id, ack_max_chars, built)
    \/ \E o \in ExecOutcomes : HbExecuteDone(o)

HbExecSpec == Init /\ [][HbExecNext]_vars

\* The heartbeat's utilities, each on every modelled input.
UtilInit ==
    /\ ucall \in ActiveHoursCalls \cup IntervalCalls \cup ConfigCalls
    /\ Quiet

UtilNext ==
    \/ IsWithinActiveHours
    \/ ParseInterval
    \/ NewHeartbeatConfig

UtilSpec == UtilInit /\ [][UtilNext]_vars

\* The webhook handler of every modelled allow-list, on its updates.
HookInit ==
    /\ ucall = NoUcall
    /\ hook \in { NewHandler(al) : al \in AllowLists }
    /\ hbx = IdleHbx
    /\ cls = NoClassify
    /\ sched = NoScheduler
    /\ tasks = <<>>
    /\ hcall = IdleHcall
    /\ beat = NoBeat
    /\ clients = <<>>
    /\ locks = {}
    /\ lockOwner = [c \in Chats |-> 0]
    /\ lockQueue = [c \in Chats |-> <<>>]
    /\ sess = <<>>
    /\ calls = 0
    /\ call = [p \in Callers |-> IdleFrame]
    /\ last = NoRet

HookNext ==
    \/ \E id \in UpdateIds \cap 1..MaxHookUpdates, m \in Messages, ok \in BOOLEAN :
           HandleUpdate(id, m, ok)

HookSpec == HookInit /\ [][HookNext]_vars

\* The handler on updates that are retried, past the limit of its record:
\* the messages are those of an allowed user.
RetriedMessages == { m \in Messages \ {None} : m[1].user_id = Some(1) /\ m[1].text # <<>> }

DedupeInit == HookInit /\ hook.allowed = {1}

DedupeNext ==
    \/ \E id \in UpdateIds, m \in RetriedMessages, ok \in BOOLEAN : HandleUpdate(id, m, ok)

DedupeSpec == DedupeInit /\ [][DedupeNext]_vars

\* ------------------------------------------------------------- observations
\* Caller p is inside an exchange: between acquiring its chat's lock and
\* leaving execute().
InExchange(p) ==
    call[p].pc \in {"ex_connect", "ex_query", "ex_drain", "ex_callback",
                    "ex_hang_disc", "ex_err_disc"}

\* The sessions of chat c that are connected and on which disconnect() was
\* never invoked.
LiveSessions(c) ==
    {s \in 1..Len(sess) : sess[s].chat = c /\ sess[s].st = "connected"}

\* The result fields of the ResultMessages of a stream history, in order.
RECURSIVE ResultsIn(_)
ResultsIn(h) ==
    IF h = <<>> THEN <<>>
    ELSE IF Head(h).type = "result"
         THEN <<Head(h).result>> \o ResultsIn(Tail(h))
         ELSE ResultsIn(Tail(h))

\* The text fragments of the AssistantMessages of a stream history, in order.
RECURSIVE FragmentsIn(_)
FragmentsIn(h) ==
    IF h = <<>> THEN <<>>
    ELSE IF Head(h).type = "assistant"
         THEN [i \in 1..Len(SelectSeq(Head(h).content, LAMBDA b : b.kind = "text")) |->
                  SelectSeq(Head(h).content, LAMBDA b : b.kind = "text")[i].text]
              \o FragmentsIn(Tail(h))
         ELSE FragmentsIn(Tail(h))

\* The text a result field carries: none and the empty text are alike.
TextIn(r) == IF r = None THEN <<>> ELSE r[1]

\* The results of a history that carry a non-empty text.
WithText(rs) == SelectSeq(rs, LAMBDA r : TextIn(r) # <<>>)

\* The fragments with a newline between consecutive ones.
RECURSIVE NewlineJoined(_)
NewlineJoined(parts) ==
    IF Len(parts) <= 1 THEN Concat(parts)
    ELSE Head(parts) \o <<"\n">> \o NewlineJoined(Tail(parts))

\* The last element of a non-empty sequence.
Last(q) == q[Len(q)]

\* execute() has just left through the given path.
Left(path) == last.op = "execute" /\ last.path = path

\* execute() has just returned success.
Succeeded == last.op = "execute" /\ last.kind = "returned" /\ last.success

\* execute() has just left after an idle timeout that followed a result.
TimedOutAfterResult ==
    last.op = "execute" /\ last.timed_out /\ ResultsIn(last.received) # <<>>

\* ------------------------------------------------------------- claims
\* C1: two execute() calls on the same conversation id never overlap: at most
\* one caller per chat is between acquiring the lock and returning, so the
\* second neither sends nor reads the stream before the first has returned.
C1_ExchangesSerialized ==
    \A p, q \in Callers :
        (p # q /\ InExchange(p) /\ InExchange(q)) => call[p].chat_id # call[q].chat_id

\* A caller drains a chat's stream while another waits on that chat's lock.
C1_Witness ==
    \E p, q \in Callers :
        /\ call[p].pc = "ex_drain"
        /\ call[p].received # <<>>
        /\ call[q].pc = "ex_lock"
        /\ call[q].chat_id = call[p].chat_id

\* C10: the chat's lock is released on every exit of execute() -- success,
\* hang timeout, failure, exception -- so it is only ever held by a caller
\* inside an exchange on that chat, and a caller waiting on it gets it.
C10_LockReleasedOnExit ==
    /\ [](\A c \in Chats : lockOwner[c] # 0 =>
            (InExchange(lockOwner[c]) /\ call[lockOwner[c]].chat_id = c))
    /\ \A p \in Callers : (call[p].pc = "ex_lock") ~> (call[p].pc # "ex_lock")

\* A failed execute() has left and the caller that waited on the same chat's
\* lock now holds it.
C10_Witness ==
    \E p \in Callers :
        /\ last.op = "execute" /\ ~last.success
        /\ InExchange(p)
        /\ call[p].chat_id = last.chat_id
        /\ lockOwner[last.chat_id] = p

\* C2: at most one live (connected, not yet disconnected) session per
\* conversation id, under any interleaving of execute, reset and shutdown.
C2_OneLiveSessionPerChat == \A c \in Chats : Cardinality(LiveSessions(c)) <= 1

\* C3: a reset never disconnects or removes a chat's session while an
\* execute() on that chat is between acquiring the lock and returning.
C3_ResetSerialized ==
    \A p \in Callers : call[p].pc = "rs_disc" => lockOwner[call[p].chat_id] = 0

\* C4: an idle timeout with zero terminal results makes execute() return
\* success=false with a timeout error, the session disconnected and the chat
\* absent from the table at the return.
C4_HangFails ==
    (last.op = "execute" /\ last.timed_out /\ ResultsIn(last.received) = <<>>) =>
        /\ last.kind = "returned"
        /\ ~last.success
        /\ last.error = "timeout"
        /\ ~last.in_table
        /\ sess[last.client].st = "closed"

\* C5 as stated: after an idle timeout that follows a terminal result,
\* execute() returns success with no error, the output is the text of the
\* last terminal result (compared up to trimming), and the session is still
\* in the table, connected.
C5_Original ==
    TimedOutAfterResult =>
        /\ last.kind = "returned" /\ last.success /\ last.error = "none"
        /\ last.output = Strip(TextIn(Last(ResultsIn(last.received))))
        /\ last.in_table
        /\ sess[last.client].st = "connected"

\* C5 amended: after an idle timeout that follows a terminal result,
\* execute() returns success with no error; the output is the trimmed text of
\* the last terminal result that carried a non-empty text, or the trimmed
\* newline-joined fragments when none did; and the call leaves the session in
\* the table, connected.
C5_TimeoutAfterResultSucceeds ==
    TimedOutAfterResult =>
        /\ last.kind = "returned" /\ last.success /\ last.error = "none"
        /\ last.output =
              Strip(IF WithText(ResultsIn(last.received)) # <<>>
                    THEN TextIn(Last(WithText(ResultsIn(last.received))))
                    ELSE NewlineJoined(FragmentsIn(last.received)))
        /\ last.in_table
        /\ sess[last.client].st = "connected"

\* A timeout after two results, the later one without text, has returned the
\* earlier result's text.
C5_Witness ==
    /\ TimedOutAfterResult /\ last.success
    /\ Len(ResultsIn(last.received)) >= 2
    /\ TextIn(Last(ResultsIn(last.received))) = <<>>
    /\ last.output # <<>>

\* C6 as stated: when the stream held terminal results, the output of a
\* successful execute() is the text of the last one received (compared up to
\* trimming).
C6_Original ==
    (Succeeded /\ ResultsIn(last.received) # <<>>) =>
        last.output = Strip(TextIn(Last(ResultsIn(last.received))))

\* C6 amended: when some terminal result carried a non-empty text, the
\* output of a successful execute() is the trimmed text of the last such
\* result; a later result without text does not overwrite it.
C6_LastTextResultWins ==
    (Succeeded /\ WithText(ResultsIn(last.received)) # <<>>) =>
        last.output = Strip(TextIn(Last(WithText(ResultsIn(last.received)))))

\* Two results with different texts were received and the second is the output.
C6_Witness ==
    /\ Succeeded
    /\ Len(WithText(ResultsIn(last.received))) >= 2
    /\ WithText(ResultsIn(last.received))[1] # Last(WithText(ResultsIn(last.received)))
    /\ FragmentsIn(last.received) # <<>>
    /\ last.output = Strip(TextIn(Last(ResultsIn(last.received))))

\* C7 as stated: with no terminal result text, the output of a successful
\* execute() is the plain concatenation of the fragments, trimmed.
C7_Original ==
    (Succeeded /\ WithText(ResultsIn(last.received)) = <<>>) =>
        last.output = Strip(Concat(FragmentsIn(last.received)))

\* C7 amended: with no terminal result text, the output of a successful
\* execute() is the fragments in receipt order joined by newlines, trimmed;
\* with a terminal result text, the output is that text alone.
C7_FallbackIsJoinedFragments ==
    Succeeded =>
        IF WithText(ResultsIn(last.received)) = <<>>
        THEN last.output = Strip(NewlineJoined(FragmentsIn(last.received)))
        ELSE \E r \in {ResultsIn(last.received)[i] : i \in 1..Len(ResultsIn(last.received))} :
                 last.output = Strip(TextIn(r))

\* Two different fragments and no result text: the output holds both, in
\* receipt order, with a newline between them.
C7_Witness ==
    /\ Succeeded
    /\ WithText(ResultsIn(last.received)) = <<>>
    /\ Len(FragmentsIn(last.received)) = 2
    /\ FragmentsIn(last.received)[1] # FragmentsIn(last.received)[2]
    /\ last.output = Strip(FragmentsIn(last.received)[1] \o <<"\n">> \o FragmentsIn(last.received)[2])

\* C8: an unexpected failure of connect, send or drain makes execute() return
\* success=false with the failure, the chat's session removed from the table.
C8_FailureReturns ==
    Left("error") =>
        /\ last.kind = "returned"
        /\ ~last.success
        /\ last.error = "unexpected"
        /\ ~last.in_table
        /\ sess[last.client].st \in {"closed", "failed"}

\* C9: no public operation raises to its caller.
C9_NeverRaises == last.kind # "raised"

\* C11: locks are per conversation: while a caller sits in the drain of one
\* chat, a caller executing on a different chat always has its next step
\* enabled -- it acquires that chat's lock, connects, sends and drains
\* without waiting for the first.
C11_ChatsIndependent ==
    \A p, q \in Callers :
        ( /\ p # q
          /\ call[p].pc = "ex_drain"
          /\ call[q].pc \in {"ex_lock", "ex_connect", "ex_query", "ex_drain"}
          /\ call[q].chat_id # call[p].chat_id )
        => ENABLED Progress(q)

\* An execute() on one chat has run to a successful return, with a result
\* received, while another caller is still in the drain of a different chat.
C11_Witness ==
    \E p \in Callers :
        /\ call[p].pc = "ex_drain"
        /\ Succeeded
        /\ last.chat_id # call[p].chat_id
        /\ ResultsIn(last.received) # <<>>
\* The timeouts a drain arms, as the claim states them: the long one for
\* every receive up to and including the one that brings the first terminal
\* result, the short one for every receive after it.
TimeoutPolicy(h, n) ==
    [i \in 1..n |->
        IF ResultsIn(SubSeq(h, 1, i - 1)) = <<>>
        THEN MESSAGE_IDLE_TIMEOUT ELSE POST_RESULT_IDLE_TIMEOUT]

\* C12: every receive of a drain arms a fresh idle timeout, the long one
\* while no terminal result has been received in this call and the short one
\* after; within one call the timeout never goes back from short to long.
C12_TimeoutPolicy ==
    /\ \A p \in Callers :
          call[p].pc = "ex_drain" =>
              /\ Len(call[p].armed) = Len(call[p].received)
              /\ call[p].armed = TimeoutPolicy(call[p].received, Len(call[p].armed))
    /\ (last.op = "execute" /\ last.armed # <<>>) =>
          /\ Len(last.armed) = Len(last.received) + 1
          /\ last.armed = TimeoutPolicy(last.received, Len(last.armed))
          /\ \A i, j \in 1..Len(last.armed) :
                (i < j /\ last.armed[i] = POST_RESULT_IDLE_TIMEOUT)
                    => last.armed[j] = POST_RESULT_IDLE_TIMEOUT

\* A call armed the long timeout twice, received its first result, and then
\* armed the short timeout twice, the last of which expired.
C12_Witness ==
    /\ Left("timeout_ok")
    /\ last.armed = << MESSAGE_IDLE_TIMEOUT, MESSAGE_IDLE_TIMEOUT,
                       POST_RESULT_IDLE_TIMEOUT, POST_RESULT_IDLE_TIMEOUT >>
\* The texts of a message's text blocks, in order.
TextsIn(m) ==
    [i \in 1..Len(SelectSeq(m.content, LAMBDA b : b.kind = "text")) |->
        SelectSeq(m.content, LAMBDA b : b.kind = "text")[i].text]

\* The combined text of each assistant message of a history that carries
\* text, in order of receipt.
RECURSIVE CombinedIn(_)
CombinedIn(h) ==
    IF h = <<>> THEN <<>>
    ELSE IF Head(h).type = "assistant" /\ TextsIn(Head(h)) # <<>>
         THEN <<NewlineJoined(TextsIn(Head(h)))>> \o CombinedIn(Tail(h))
         ELSE CombinedIn(Tail(h))

\* The combined texts longer than the streaming length.
Exceeding(ts) == SelectSeq(ts, LAMBDA t : Len(t) > MIN_STREAM_LENGTH)

\* C13: with a callback supplied, the texts handed to it are exactly the
\* combined texts of the received assistant messages whose length exceeds the
\* streaming length: no shorter text and no tool-only message is forwarded;
\* without a callback nothing is forwarded.
C13_ForwardedIffExceeding ==
    /\ \A p \in Callers :
          call[p].pc \in {"ex_drain", "ex_callback"} =>
              call[p].forwarded =
                  IF call[p].on_assistant_text
                  THEN Exceeding(CombinedIn(call[p].received)) ELSE <<>>
    /\ last.op = "execute" =>
          last.forwarded =
              IF last.on_assistant_text
              THEN Exceeding(CombinedIn(last.received)) ELSE <<>>
\* a is b with some elements left out, the others in the same order.
RECURSIVE IsSubseq(_, _)
IsSubseq(a, b) ==
    IF a = <<>> THEN TRUE
    ELSE IF b = <<>> THEN FALSE
    ELSE IF Head(a) = Head(b) THEN IsSubseq(Tail(a), Tail(b))
    ELSE IsSubseq(a, Tail(b))

\* The texts handed to the callback follow the order of receipt and miss no
\* text longer than the streaming length, whether it came before or after a
\* terminal result.
ForwardedInOrder(fwd, h) ==
    /\ IsSubseq(fwd, CombinedIn(h))
    /\ Exceeding(fwd) = Exceeding(CombinedIn(h))

\* C14: the callback invocations of an execute() call with a callback are all
\* made by the time the call returns, in the order the messages were
\* received, and substantive messages that arrive after a terminal result are
\* still forwarded.
C14_CallbacksOrderedBeforeReturn ==
    /\ \A p \in Callers :
          (call[p].pc \in {"ex_drain", "ex_callback"} /\ call[p].on_assistant_text)
              => ForwardedInOrder(call[p].forwarded, call[p].received)
    /\ (last.op = "execute" /\ last.on_assistant_text)
          => ForwardedInOrder(last.forwarded, last.received)

\* A call has returned after handing over two different texts, the second
\* received after a terminal result.
C14_Witness ==
    /\ Succeeded
    /\ Len(last.received) = 3
    /\ last.received[2].type = "result"
    /\ Len(last.forwarded) = 2
    /\ last.forwarded[1] # last.forwarded[2]
    /\ last.forwarded = CombinedIn(last.received)
\* Chat c has an entry in the session table.
InTable(c) == \E i \in 1..Len(clients) : clients[i].chat = c

\* The caller whose step this is runs one of: the teardown of a reset, of a
\* shutdown, or of an execute() that hung or failed.
TeardownStep ==
    \E p \in Callers :
        /\ call'[p] # call[p]
        /\ \/ call[p].pc \in {"rs_disc", "sd_disc", "ex_hang_disc", "ex_err_disc"}
           \/ call'[p].pc \in {"rs_disc", "sd_disc", "ex_hang_disc", "ex_err_disc"}
           \/ last' # last /\ last'.op \in {"reset", "shutdown"}
           \/ last' # last /\ last'.op = "execute" /\ ~last'.success

\* What one step may do to the sessions: a session is constructed only by an
\* execute() that has just acquired the lock of a chat with no entry in the
\* table, and for that chat; an execute() on a chat that has an entry uses
\* the session of that entry; an entry leaves the table, and a session is
\* disconnected, only in a teardown step.
LifecycleStep ==
    /\ Len(sess') > Len(sess) =>
          \E p \in Callers :
              /\ call[p].pc = "ex_lock" /\ call'[p].pc = "ex_connect"
              /\ ~InTable(call[p].chat_id)
              /\ sess' = Append(sess, [chat |-> call[p].chat_id, st |-> "connecting"])
              /\ call'[p].client = Len(sess')
    /\ \A p \in Callers :
          (call[p].pc = "ex_lock" /\ call'[p].pc # "ex_lock" /\ InTable(call[p].chat_id))
              => ( /\ sess' = sess
                   /\ \E i \in 1..Len(clients) :
                         /\ clients[i].chat = call[p].chat_id
                         /\ call'[p].client = clients[i].sid )
    /\ (\E i \in 1..Len(clients) :
            \A j \in 1..Len(clients') : clients'[j] # clients[i]) => TeardownStep
    /\ (\E s \in 1..Len(sess) : sess[s].st = "connected" /\ sess'[s].st # "connected")
            => TeardownStep

\* C15: sessions are created lazily by the first execute() on a chat and
\* kept: successive execute() calls on a chat reuse the session of the
\* chat's entry; only a reset, a shutdown or an execute() that hung or failed
\* removes an entry or disconnects a session; and the entries of different
\* chats hold different sessions, each made for its chat.
C15_SessionLifecycle ==
    /\ [](\A i, j \in 1..Len(clients) :
            /\ sess[clients[i].sid].chat = clients[i].chat
            /\ (i # j) => (clients[i].chat # clients[j].chat /\ clients[i].sid # clients[j].sid))
    /\ [][LifecycleStep]_vars

\* Three calls, two sessions: execute() on chat 1 connected session 1,
\* execute() on chat 2 connected session 2, and a second execute() on chat 1
\* has succeeded on session 1.
C15_Witness ==
    /\ Succeeded
    /\ calls = 3
    /\ last.chat_id = 1 /\ last.client = 1
    /\ clients = << [chat |-> 1, sid |-> 1], [chat |-> 2, sid |-> 2] >>
    /\ \A s \in 1..Len(sess) : sess[s].st = "connected"
\* The table entries of the chats other than c.
OtherEntries(tbl, c) == SelectSeq(tbl, LAMBDA e : e.chat # c)

\* What the steps of a reset do.  A reset of a chat with no entry changes
\* nothing.  A reset of a chat with an entry first disconnects the entry's
\* session and nothing else, and then returns having removed that very entry
\* and nothing else; no step of it touches a lock.
ResetStep ==
    \A p \in Callers :
        /\ (call[p].pc = "idle" /\ call'[p].pc = "idle" /\ calls' # calls /\ last'.op = "reset")
              => ( /\ ~InTable(last'.chat_id)
                   /\ last'.kind = "returned"
                   /\ UNCHANGED <<clients, sess, locks, lockOwner, lockQueue>> )
        /\ (call[p].pc = "idle" /\ call'[p].pc = "rs_disc")
              => ( /\ \E i \in 1..Len(clients) :
                         clients[i] = [chat |-> call'[p].chat_id, sid |-> call'[p].closing]
                   /\ sess' = [sess EXCEPT ![call'[p].closing].st = "closed"]
                   /\ UNCHANGED <<clients, locks, lockOwner, lockQueue>> )
        /\ (call[p].pc = "rs_disc" /\ call'[p].pc = "idle")
              => ( /\ last'.kind = "returned"
                   /\ \E i \in 1..Len(clients) :
                         clients[i] = [chat |-> call[p].chat_id, sid |-> call[p].closing]
                   /\ clients' = OtherEntries(clients, call[p].chat_id)
                   /\ UNCHANGED <<sess, locks, lockOwner, lockQueue>> )

\* C16: reset(id) disconnects and removes the session of that id when the
\* table has one and does nothing otherwise; the entries and sessions of the
\* other ids, and every lock, are left as they were.
C16_ResetEffect == [][ResetStep]_vars
\* What the last step of a teardown does, whether or not a disconnect()
\* raised.  A reset and a failed execute() return with their chat out of the
\* table; a shutdown goes through every session of the table it was called
\* on, one disconnect() after the other, and returns with the table empty.
TeardownCompletes ==
    \A p \in Callers :
        /\ (call[p].pc \in {"rs_disc", "ex_hang_disc", "ex_err_disc"} /\ call'[p].pc = "idle")
              => ( /\ last'.kind = "returned"
                   /\ \A i \in 1..Len(clients') : clients'[i].chat # call[p].chat_id )
        /\ (call[p].pc = "sd_disc" /\ call'[p].pc = "sd_disc" /\ call'[p] # call[p])
              => ( /\ call'[p].todo = Tail(call[p].todo)
                   /\ sess'[call'[p].todo[1].sid].st = "closed" )
        /\ (call[p].pc = "sd_disc" /\ call'[p].pc = "idle")
              => ( /\ last'.kind = "returned"
                   /\ Len(call[p].todo) = 1
                   /\ clients' = <<>> )
        /\ (call[p].pc = "idle" /\ call'[p].pc = "sd_disc")
              => ( /\ call'[p].todo = clients
                   /\ sess'[clients[1].sid].st = "closed" )

\* C17: teardown always completes.  A reset and a failed execute() return
\* normally with the session out of the table even when disconnect() raised;
\* a shutdown attempts disconnect() on every session of the table, goes on
\* after a failure, and leaves the table empty.
C17_TeardownCompletes == [][TeardownCompletes]_vars
\* A loop task ends in this step.
LoopEnds(t) == t \in 1..Len(tasks) /\ tasks[t].pc \in Live /\ tasks'[t].pc \in Ended

\* The task ending in this step is cancelled at stop()'s request, or leaves
\* its loop on finding _running cleared.
EndedByStop(t) ==
    \/ (tasks[t].cancel /\ tasks'[t].pc = "cancelled")
    \/ (~sched.running /\ tasks'[t].pc = "done")

\* C18: once started, a heartbeat loop is ended only by a deliberate stop: a
\* loop task never dies of an exception, and it ends only cancelled by
\* stop() (or on finding _running cleared by stop()); a tick whose execution
\* failed or raised, or whose alert callback raised, is followed by the
\* loop's interval sleep, from which the next tick starts.
C18_LoopSurvivesErrors ==
    /\ [](\A t \in 1..Len(tasks) : tasks[t].pc # "crashed")
    /\ [][\A t \in 1..MaxStarts : LoopEnds(t) => EndedByStop(t)]_vars
    /\ \A t \in 1..MaxStarts :
          (t <= Len(tasks) /\ tasks[t].pc \in {"exec", "alert"})
              ~> (t <= Len(tasks) /\ tasks[t].pc \in {"sleep", "cancelled"})

\* A loop task is in its second tick's execution after a first tick in which
\* the executor or the alert callback raised.
C18_Witness ==
    \E t \in 1..Len(tasks) :
        /\ tasks[t].pc = "exec"
        /\ tasks[t].ticks = 2
        /\ beat.by = t
        /\ beat.how \in {"raised", "alert_raised"}

\* C19: a heartbeat execution, by a tick or by trigger(), calls the alert
\* callback exactly once when its result has success and should_deliver and a
\* callback is configured, and never otherwise: not for a failed result, a
\* suppressed one, a raised exception or a scheduler without a callback.
C19_AlertExactlyWhenDue ==
    /\ beat.how # "none" =>
          beat.alerts = IF /\ ~beat.raised
                           /\ beat.result.success /\ beat.result.should_deliver
                           /\ sched.on_alert
                        THEN 1 ELSE 0
    /\ \A t \in 1..Len(tasks) :
          /\ tasks[t].pc = "exec" => tasks[t].alerts = 0
          /\ tasks[t].pc = "alert" =>
                /\ tasks[t].alerts = 1
                /\ tasks[t].result.success /\ tasks[t].result.should_deliver
                /\ sched.on_alert
    /\ hcall.trigger.pc = "exec" => hcall.trigger.alerts = 0
    /\ hcall.trigger.pc = "alert" =>
          /\ hcall.trigger.alerts = 1
          /\ hcall.trigger.result.success /\ hcall.trigger.result.should_deliver
          /\ sched.on_alert

\* A trigger() has delivered one alert and returned while a loop task sleeps
\* between its ticks.
C19_Witness ==
    /\ beat.by = 0 /\ beat.how = "delivered" /\ beat.alerts = 1
    /\ hcall.trigger.pc = "idle"
    /\ \E t \in 1..Len(tasks) : tasks[t].pc = "sleep" /\ tasks[t].ticks > 0

\* What a call of start() does.
StartStep ==
    hcall'.starts # hcall.starts =>
        IF ~sched.enabled \/ sched.running
        THEN UNCHANGED <<sched, tasks>>
        ELSE /\ ~sched.running /\ sched'.running
             /\ tasks' = Append(tasks, NewTask)
             /\ sched'.task = Len(tasks')

\* C20: start() does nothing when the configuration is disabled -- the
\* scheduler stays stopped, with no task -- and nothing when the scheduler is
\* running; otherwise it takes the scheduler from stopped to running and
\* creates one loop task.
C20_StartOnlyWhenStopped ==
    /\ [](~sched.enabled => (~sched.running /\ sched.task = 0 /\ tasks = <<>>))
    /\ [][StartStep]_vars

\* start() was called twice on an enabled scheduler and there is one loop
\* task, running.
C20_Witness ==
    /\ sched.enabled /\ sched.running
    /\ hcall.starts = 2
    /\ Len(tasks) = 1 /\ sched.task = 1
    /\ tasks[1].pc \in Live /\ ~tasks[1].cancel

\* A call of stop() returns from its `await self._task` in this step.
StopReturns == hcall.stop.pc = "await" /\ hcall'.stop.pc = "idle"

\* A loop task begins a heartbeat execution in this step.
TickBegins(t) == t \in 1..Len(tasks) /\ tasks[t].pc # "exec" /\ tasks'[t].pc = "exec"

\* What stop() does: it returns with the awaited task ended and the scheduler
\* stopped, holding no task; on a stopped scheduler nothing is cancelled and
\* nothing changes; a stopped scheduler begins no scheduled execution.
StopStep ==
    /\ StopReturns =>
          /\ tasks[hcall.stop.task].pc \in Ended
          /\ ~sched'.running /\ sched'.task = 0
    /\ (~sched.running /\ hcall.stop.pc = "idle") =>
          /\ hcall'.stop = hcall.stop
          /\ \A t \in 1..Len(tasks) : tasks'[t].cancel = tasks[t].cancel
          /\ \A t \in 1..MaxStarts : ~TickBegins(t)

\* C21: stop() cancels the loop task and waits for it to finish, leaving the
\* scheduler stopped with no task; stop() on a stopped or never-started
\* scheduler changes nothing; and once stop() has returned no scheduled
\* heartbeat execution begins until start() is called again.
C21_StopLeavesStopped == [][StopStep]_vars

\* Loop task t, sleeping in a running scheduler and not cancelled, has its
\* next tick ahead of it (within the modelled number of ticks).
TicksAgain(t) ==
    (tasks[t].pc = "sleep" /\ ~tasks[t].cancel /\ sched.running /\ tasks[t].ticks < MaxTicks)
        => ENABLED LoopTick(t, TRUE)

\* C22: a loop task's first tick runs with no sleep before it, and every
\* later tick starts after exactly one sleep of the configured interval that
\* followed the tick before it, whether that tick executed, was skipped or
\* failed: a task in its n-th tick has slept n-1 times, a task asleep after
\* its n-th tick n times, for the configured interval, and goes on to tick.
C22_OneSleepBetweenTicks ==
    \A t \in 1..Len(tasks) :
        /\ tasks[t].pc = "new" => (tasks[t].ticks = 0 /\ tasks[t].sleeps = 0)
        /\ tasks[t].pc \in {"exec", "alert"} =>
              /\ tasks[t].ticks >= 1
              /\ tasks[t].sleeps = tasks[t].ticks - 1
              /\ tasks[t].sleeps > 0 => tasks[t].nap = sched.interval
        /\ tasks[t].pc = "sleep" =>
              /\ tasks[t].ticks >= 1
              /\ tasks[t].sleeps = tasks[t].ticks
              /\ tasks[t].nap = sched.interval
        /\ TicksAgain(t)

\* A loop task configured with the one-hour interval is in its second tick,
\* after one sleep that followed a first tick whose execution failed.
C22_Witness ==
    \E t \in 1..Len(tasks) :
        /\ tasks[t].pc = "exec" /\ tasks[t].ticks = 2 /\ tasks[t].sleeps = 1
        /\ tasks[t].nap = 3600
        /\ beat.by = t /\ beat.how = "failed"

\* Loop task t starts a tick in this step.
TickStarts(t) == t \in 1..Len(tasks) /\ tasks'[t].ticks = tasks[t].ticks + 1

\* A tick outside the configured window goes straight to the loop's sleep,
\* with no executor call, no alert and no execution recorded; any other tick
\* calls the executor.
TickStep ==
    \A t \in 1..MaxStarts :
        TickStarts(t) =>
            IF sched.active_hours /\ tasks'[t].clock = "outside"
            THEN /\ tasks'[t].pc = "sleep"
                 /\ tasks'[t].sleeps = tasks[t].sleeps + 1
                 /\ tasks'[t].alerts = 0
                 /\ beat' = beat
            ELSE tasks'[t].pc = "exec"

\* C23: a scheduled tick whose time is outside the configured active-hours
\* window invokes neither the heartbeat executor nor the alert callback: it
\* is skipped, and the loop sleeps and goes on; with no window configured
\* every tick executes.
C23_SkipsOutsideActiveHours ==
    /\ [](\A t \in 1..Len(tasks) :
            /\ tasks[t].clock = "outside" =>
                  (sched.active_hours /\ tasks[t].pc = "sleep" /\ tasks[t].alerts = 0)
            /\ ~sched.active_hours => tasks[t].clock = "unread")
    /\ [][TickStep]_vars

\* A loop task with a window configured sleeps after its second tick, which
\* was skipped outside the window; its first tick had executed.
C23_Witness ==
    \E t \in 1..Len(tasks) :
        /\ sched.active_hours
        /\ tasks[t].pc = "sleep" /\ tasks[t].ticks = 2 /\ tasks[t].sleeps = 2
        /\ tasks[t].clock = "outside"
        /\ beat.by = t

\* C24: a scheduled tick first consults the target resolver, and when no
\* delivery target is available the tick's execution is skipped: the
\* heartbeat executor is not invoked on that tick.
C24_SkipsWithoutTarget ==
    \A t \in 1..Len(tasks) : tasks[t].pc \in {"exec", "alert"} => sched.target # None

\* What a step of trigger() does: it leaves the scheduler and its loop tasks
\* as they are, and goes from the call through one execution, and its alert
\* if one is due, back to the caller.
TriggerStep ==
    hcall'.trigger # hcall.trigger =>
        /\ sched' = sched
        /\ tasks' = tasks
        /\ \/ /\ hcall.trigger.pc = "idle" /\ hcall'.trigger.pc = "exec"
              /\ beat' = beat
           \/ /\ hcall.trigger.pc = "exec" /\ hcall'.trigger.pc = "alert"
              /\ beat' = beat
           \/ /\ hcall.trigger.pc \in {"exec", "alert"} /\ hcall'.trigger.pc = "idle"
              /\ beat'.by = 0

\* C25: trigger() runs one heartbeat execution, with its failure handling
\* and alert delivery, once, and returns when it is over, with no interval
\* sleep; it can be called whether the scheduler is running, stopped or
\* disabled, whatever the active-hours window and the delivery target; and
\* it leaves the scheduler's running state and loop tasks unchanged.
C25_TriggerRunsOnce ==
    /\ [](hcall.trigger.pc \in {"idle", "exec", "alert"})
    /\ []((sched.made /\ hcall.trigger.pc = "idle") => ENABLED Trigger)
    /\ [][TriggerStep]_vars

\* A trigger() has run an execution, delivered its alert and returned, on a
\* disabled scheduler with an active-hours window and no delivery target.
C25_Witness ==
    /\ ~sched.enabled /\ ~sched.running /\ sched.active_hours /\ sched.target = None
    /\ hcall.trigger.pc = "idle"
    /\ beat.by = 0 /\ beat.how = "delivered" /\ beat.alerts = 1

\* Text s begins, or ends, with the marker token in some letter case.
BeginsWithMarker(s) == MarkerAt(s, 1)
EndsWithMarker(s) == MarkerAt(s, Len(s) - Len(MARKER) + 1)

\* The marker stands at the very start or the very end of the text, its
\* whitespace padding aside.
MarkerAtAnEnd(s) == BeginsWithMarker(Strip(s)) \/ EndsWithMarker(Strip(s))

\* The marker stands somewhere in the text.
MarkerWithin(s) == \E i \in 1..Len(s) : MarkerAt(s, i)

\* C28: when the classifier detects an acknowledgment marker, is_ok is true
\* and should_deliver is true exactly when the stripped content is strictly
\* longer than the threshold; content as long as the threshold is suppressed.
C28_AckDeliveredAboveThreshold ==
    cls.pc = "out" =>
        /\ MarkerAtAnEnd(cls.text) => cls.out.is_ok
        /\ cls.out.is_ok =>
              /\ cls.out.content = Strip(cls.out.content)
              /\ cls.out.should_deliver <=> Len(cls.out.content) > cls.ack_max_chars

\* An acknowledgment whose stripped content is exactly as long as the
\* threshold, and is suppressed.
C28_Witness ==
    /\ cls.pc = "out" /\ cls.out.is_ok
    /\ Len(cls.out.content) = cls.ack_max_chars
    /\ ~cls.out.should_deliver

\* C29: a text with no marker at its very start or very end (a marker only
\* in its interior, an empty or whitespace-only text included) is no
\* acknowledgment: is_ok is false, the content is the text unmodified, and
\* should_deliver is true whatever the length and the threshold.
C29_NoMarkerDeliveredUnchanged ==
    (cls.pc = "out" /\ ~MarkerAtAnEnd(cls.text)) =>
        /\ ~cls.out.is_ok
        /\ cls.out.content = cls.text
        /\ cls.out.should_deliver

\* A text with the marker in its interior only, classified as no
\* acknowledgment and returned as it is.
C29_Witness ==
    /\ cls.pc = "out" /\ ~cls.out.is_ok
    /\ MarkerWithin(cls.text) /\ ~MarkerAtAnEnd(cls.text)
    /\ cls.out.content = cls.text /\ cls.out.should_deliver

\* C30: the content of an acknowledged result has the marker stripped, at
\* the start and at the end, with the whitespace next to it: it neither
\* begins nor ends with the marker token, in any letter case.
C30_AckContentHasNoMarkerAtEnds ==
    (cls.pc = "out" /\ cls.out.is_ok) =>
        /\ ~BeginsWithMarker(cls.out.content)
        /\ ~EndsWithMarker(cls.out.content)

C27_ResultFollowsExecution ==
    hbx.pc = "done" =>
        IF hbx.exec.raised \/ ~hbx.exec.success
        THEN /\ ~hbx.result.success /\ ~hbx.result.should_deliver /\ ~hbx.result.is_ok
             /\ hbx.result.content = <<>>
             /\ hbx.result.error # None
             /\ ~hbx.exec.raised => hbx.result.error = hbx.exec.error
             /\ hbx.exec.raised => hbx.result.error[1][2] = hbx.exec.error[1]
        ELSE LET c == classify_heartbeat_response(hbx.exec.output, hbx.ack_max_chars)
             IN  /\ hbx.result.success
                 /\ hbx.result.error = None
                 /\ hbx.result.is_ok = c.is_ok
                 /\ hbx.result.content = c.content
                 /\ hbx.result.should_deliver = c.should_deliver

\* The session executor raised, and execute() returned a failed result
\* carrying the exception's text.
C27_Witness ==
    /\ hbx.pc = "done" /\ hbx.exec.raised
    /\ ~hbx.result.success /\ ~hbx.result.should_deliver /\ ~hbx.result.is_ok
    /\ hbx.result.error = Some(<<"Unexpected error: ", "boom">>)

\* The window of a call: its start and end, in seconds of the day, as the
\* test's windows are written.
WindowBounds(w) ==
    CASE w = Some(<<"9", "-", "1", "7">>) -> <<32400, 61200>>
      [] w = Some(<<"2", "2", ":", "0", "0", "-", "0", "6", ":", "0", "0">>) -> <<79200, 21600>>
      [] w = Some(<<"9", "-", "9">>) -> <<32400, 32400>>
      [] w = Some(<<"9", ":", "3", "0", " ", "-", " ", "1", "7", ":", "0", "0">>) -> <<34200, 61200>>

\* C31: for a window from S to E and a time of day T in the target zone,
\* whatever the date: when E <= S the window spans midnight and T is inside
\* iff T >= S or T < E (S = E covers the whole day); otherwise T is inside iff
\* S <= T < E.  The start is inclusive and the end exclusive.
C31_WindowBoundaries ==
    ( /\ ucall.pc = "out" /\ ucall.fn = "is_within_active_hours"
      /\ ucall.args.active_hours \in {Some(<<"9", "-", "1", "7">>), Some(<<"2", "2", ":", "0", "0", "-", "0", "6", ":", "0", "0">>), Some(<<"9", "-", "9">>), Some(<<"9", ":", "3", "0", " ", "-", " ", "1", "7", ":", "0", "0">>)}
      /\ KnownZone(ucall.args.tz) ) =>
        LET S == WindowBounds(ucall.args.active_hours)[1]
            E == WindowBounds(ucall.args.active_hours)[2]
            T == (ucall.args.now.sec + (IF ucall.args.tz = "UTC" THEN 0 ELSE 9 * 3600)) % 86400
        IN  /\ ucall.out.raised = "none"
            /\ ucall.out.value <=> IF E <= S THEN (T >= S \/ T < E) ELSE (S <= T /\ T < E)
            /\ T = S => ucall.out.value
            /\ (T = E /\ E # S) => ~ucall.out.value
            /\ S = E => ucall.out.value

\* The clock read exactly at the end of the overnight window 22:00-06:00, on
\* the second day: outside.
C31_Witness ==
    /\ ucall.pc = "out" /\ ucall.fn = "is_within_active_hours"
    /\ ucall.args.active_hours = Some(<<"2", "2", ":", "0", "0", "-", "0", "6", ":", "0", "0">>)
    /\ ucall.args.tz = "UTC" /\ ucall.args.now = [day |-> 1, sec |-> 21600]
    /\ ucall.out = [raised |-> "none", value |-> FALSE]

\* The input of a parse_interval call is only whitespace, or absent.
BlankDuration(d) == d = None \/ \A i \in 1..Len(d[1]) : d[1][i] \in Whitespace

\* The text has a '-' somewhere.
HasDash(t) == \E i \in 1..Len(t) : t[i] = "-"

\* Some parsed component of the text has a number that is not positive.
HasNonPositiveComponent(t) ==
    LET ts == TokensFrom(t, 1)
    IN  \E i \in 1..Len(ts) : NatOf(ts[i].int) = 0 /\ NatOf(ts[i].frac) = 0

\* Some parsed component of the text has a positive number.
HasPositiveComponent(t) ==
    LET ts == TokensFrom(t, 1)
    IN  \E i \in 1..Len(ts) : NatOf(ts[i].int) > 0 \/ NatOf(ts[i].frac) > 0

ParsedInterval == ucall.pc = "out" /\ ucall.fn = "parse_interval"

\* C32: parse_interval gives 30 minutes for None, empty or whitespace-only
\* input; any other input with a '-' in it, or with a <number><unit> component
\* that is not positive, fails with the error for non-positive values, whatever
\* else the input has.
C32_DefaultAndNonPositive ==
    ParsedInterval =>
        LET d == ucall.args.duration
        IN  IF BlankDuration(d)
            THEN ucall.out = [ok |-> TRUE, value |-> [sec |-> 30 * 60, us |-> 0]]
            ELSE (HasDash(d[1]) \/ HasNonPositiveComponent(d[1]))
                    => ucall.out = [ok |-> FALSE, error |-> "Duration values must be positive"]

\* A non-positive component next to a positive one, without any '-'.
C32_Witness ==
    /\ ParsedInterval
    /\ ~BlankDuration(ucall.args.duration)
    /\ ~HasDash(ucall.args.duration[1])
    /\ HasNonPositiveComponent(ucall.args.duration[1])
    /\ HasPositiveComponent(ucall.args.duration[1])
    /\ ~ucall.out.ok

\* From position i on, the text is <number><unit> tokens with nothing but
\* whitespace between them.
RECURSIVE ComposedFrom(_, _)
ComposedFrom(s, i) ==
    LET j == i + SpacesFrom(s, i)
    IN  \/ j > Len(s)
        \/ TokenAt(s, j).ok /\ ComposedFrom(s, TokenAt(s, j).next)

\* C33: parse_interval fails with the invalid-format error for every non-empty
\* input without a <number><unit> token, and succeeds only for inputs that are
\* made of <number><unit> tokens optionally separated by whitespace: an unknown
\* unit or malformed text anywhere makes it fail.
C33_MalformedTextIsRejected ==
    (ParsedInterval /\ ~BlankDuration(ucall.args.duration)) =>
        LET t == Strip(ucall.args.duration[1])
        IN  /\ (TokensFrom(t, 1) = <<>> /\ ~HasDash(t))
                  => ucall.out = [ok |-> FALSE, error |-> "Invalid duration format"]
            /\ ucall.out.ok => ComposedFrom(t, 1)

ConstructedConfig == ucall.pc = "out" /\ ucall.fn = "HeartbeatConfig"

\* C34: a heartbeat configuration is constructed only if its interval string
\* parses, its active-hours string (if there is one) parses, its timezone is
\* known and its acknowledgment threshold is positive; the interval of a
\* constructed configuration is parse_interval of its interval string and is a
\* strictly positive duration, and the active-hours check of a tick raises
\* nothing for it at any instant.
C34_ConstructedConfigIsUsable ==
    (ConstructedConfig /\ ucall.out.config.ok) =>
        LET a == ucall.args
            c == ucall.out.config
        IN  /\ parse_interval(Some(a.every)).ok
            /\ a.active_hours = None \/ Strip(a.active_hours[1]) = <<>>
                  \/ parse_active_hours(a.active_hours[1]).ok
            /\ a.timezone \in DOMAIN ZoneOffset
            /\ a.ack_max_chars > 0
            /\ ucall.out.interval = parse_interval(Some(c.every))
            /\ ucall.out.interval.ok
            /\ ucall.out.interval.value.sec > 0 \/ ucall.out.interval.value.us > 0
            /\ \A now \in Instants : ConfigWithinActiveHours(c, now).raised = "none"

\* A handle_update call has returned in this step.
Handled == hook' # hook

\* The ids of the last max_tracked_updates recordings.
RecentlyRecorded ==
    LET n == Len(hook.recorded)
    IN  { hook.recorded[i] : i \in (IF n > 1000 THEN n - 999 ELSE 1)..n }

C35_RetryStep ==
    (Handled /\ hook'.done.update_id \in RecentlyRecorded)
        => ~hook'.done.fresh /\ hook'.done.did = <<>>

\* C35 (as amended): an update whose id is among the last 1000 ids the handler
\* recorded is not handled again: the call returns without an execution, a
\* reset or a message.
C35_RecentRetryIsSkipped == [][C35_RetryStep]_vars

\* A retry is skipped by a handler that has already dropped ids of its record.
C35_Witness ==
    /\ Len(hook.recorded) > 1000
    /\ hook.done.update_id > 0
    /\ ~hook.done.fresh
    /\ hook.done.did = <<>>

C35_AnyRetryStep ==
    (Handled /\ \E i \in 1..Len(hook.recorded) : hook.recorded[i] = hook'.done.update_id)
        => hook'.done.did = <<>>

\* C35 (as stated): whatever the sequence of calls, an update id that was
\* handled before is not handled again.
C35_EveryRetryIsSkipped == [][C35_AnyRetryStep]_vars

\* The last update was a message with text from a sender the allow-list does
\* not have: no sender at all, any sender when the list is empty, or another.
FromUnlisted ==
    /\ hook.done.fresh
    /\ hook.done.text # <<>>
    /\ \/ hook.done.user_id = None
       \/ hook.allowed = {}
       \/ hook.done.user_id[1] \notin hook.allowed

CallsOf(did) == { did[i] : i \in 1..Len(did) }

\* C36: a message from a user who is not on the allow-list never reaches the
\* session executor: no execute and no reset is made for it, and the only
\* message sent is the rejection.
C36_UnlistedNeverReachesExecutor ==
    FromUnlisted => hook.done.did = <<"send_message:unauthorized">>

\* A user is turned away by a handler whose allow-list is empty.
C36_Witness ==
    /\ FromUnlisted
    /\ hook.allowed = {}
    /\ hook.done.user_id # None
    /\ "execute" \notin CallsOf(hook.done.did)
    /\ "reset_chat" \notin CallsOf(hook.done.did)

\* The sessions a table holds.
SessionsIn(tbl) == { tbl[i].sid : i \in 1..Len(tbl) }

C37_LeaveStep ==
    \A s \in SessionsIn(clients) \ SessionsIn(clients') : sess'[s].st = "closed"

\* C37: every session that leaves the session table has had disconnect
\* invoked on it first, however shutdown() and execute() calls interleave.
C37_DisconnectedBeforeLeaving == [][C37_LeaveStep]_vars

\* The loop tasks that have not ended.
LiveTasks == { t \in 1..Len(tasks) : tasks[t].pc \in Live }

\* C38: at most one heartbeat loop task is alive at any time, and whenever no
\* stop() is under way the scheduler is running exactly when it holds a live
\* loop task, however start() and stop() calls follow and overlap each other.
C38_OneLiveLoopTask ==
    /\ Cardinality(LiveTasks) <= 1
    /\ hcall.stop.pc = "idle" => (sched.running <=> sched.task \in LiveTasks)

\* A terminal result message without text: absent, or empty.
Textless(m) == m.type = "result" /\ (m.result = None \/ m.result = Some(<<>>))

\* Some result message, with text or without, is among the first n received.
ResultAmong(msgs, n) == \E i \in 1..n : msgs[i].type = "result"

\* The text of the last result message that carried one; None if none did.
RECURSIVE LastCarriedText(_)
LastCarriedText(msgs) ==
    IF msgs = <<>> THEN None
    ELSE LET m == msgs[Len(msgs)]
         IN  IF m.type = "result" /\ ~Textless(m) THEN m.result
             ELSE LastCarriedText(SubSeq(msgs, 1, Len(msgs) - 1))

\* The text fragments of the assistant messages, in order.
RECURSIVE Fragments(_)
Fragments(msgs) ==
    IF msgs = <<>> THEN <<>>
    ELSE (IF Head(msgs).type = "assistant" THEN TextsOf(Head(msgs).content) ELSE <<>>)
            \o Fragments(Tail(msgs))

\* An execute() that received a textless result has returned from its drain.
DrainedTextless ==
    /\ last.op = "execute" /\ last.kind = "returned"
    /\ last.path \in {"ok", "timeout_ok", "hang"}
    /\ \E i \in 1..Len(last.received) : Textless(last.received[i])

\* C39: a terminal result message without text counts as a terminal result
\* for the timeouts: every wait after it has the short post-result timeout,
\* and an idle timeout after it ends the call successfully; it leaves the
\* last-result text as it was, the output being the text of the last result
\* that carried one, or else the joined fragments.
C39_TextlessResultCounts ==
    DrainedTextless =>
        /\ \A i \in 1..Len(last.armed) :
              last.armed[i] = IF ResultAmong(last.received, i - 1) THEN 30 ELSE 1800
        /\ last.success /\ last.path # "hang"
        /\ last.output =
              Strip(IF LastCarriedText(last.received) # None
                    THEN LastCarriedText(last.received)[1]
                    ELSE Join(Fragments(last.received)))

\* A result with text, then a textless result, then an idle timeout.
C39_Witness ==
    /\ DrainedTextless
    /\ last.timed_out
    /\ Len(last.received) = 2
    /\ ~Textless(last.received[1]) /\ last.received[1].type = "result"
    /\ Textless(last.received[2])
    /\ last.success
    /\ last.output # <<>>

\* The frame or return record is of a call whose partial-text callback
\* raised: its last wait gave a message, and the call went to the
\* except-handler without another wait.
AfterCallbackRaised(f) == f.received # <<>> /\ Len(f.armed) = Len(f.received)

\* The callback of caller 1 raises in this step.
CallbackRaises ==
    /\ call[1].pc = "ex_callback"
    /\ call'[1].pc \notin {"ex_callback", "ex_drain"}

\* The execute() whose callback raised returns in this step.
ReturnsAfterCallbackRaised ==
    /\ call[1].pc = "ex_err_disc"
    /\ AfterCallbackRaised(call[1])
    /\ call'[1].pc = "idle"

C40_CallbackStep ==
    /\ CallbackRaises =>
          IF HasClient(call[1].chat_id)
          THEN /\ call'[1].pc = "ex_err_disc"
               /\ call'[1].received = call[1].received
               /\ sess'[ClientOf(call[1].chat_id)].st = "closed"
          ELSE /\ call'[1].pc = "idle"
               /\ last'.received = call[1].received
               /\ last'.kind = "returned" /\ ~last'.success
    /\ ReturnsAfterCallbackRaised =>
          /\ last'.op = "execute" /\ last'.kind = "returned"
          /\ ~last'.success /\ last'.error = "unexpected"
          /\ last'.received = call[1].received
          /\ ~\E i \in 1..Len(clients') : clients'[i].chat = call[1].chat_id
          /\ lockOwner'[call[1].chat_id] = 0

\* C40: when the partial-text callback raises during the drain, execute()
\* stops draining, disconnects and drops the session of the conversation and
\* returns success=false with the failure, also after a terminal result; the
\* lock of the conversation is released.
C40_CallbackFailureFailsCall == [][C40_CallbackStep]_vars

====
